---- MODULE Spec2Model ----
(***************************************************************************)
(* Model of the load pipeline of jpksj-to-sql.                             *)
(*                                                                         *)
(*   Spec      Loader::load_all driving LoadQueue (new / push / close),    *)
(*             the dataset workers and the progress task                   *)
(*             (src/src/loader/load_queue.rs, src/src/loader/mod.rs).      *)
(*   SpecApi   the same LoadQueue under any sequence of push/close calls.  *)
(*   SpecLoad  one execution of load() for one dataset, step by step       *)
(*             (src/src/loader/load_queue.rs, src/src/loader/gdal.rs).     *)
(*   SpecZip   matching_shapefiles_in_zip and the recursive extract_zip    *)
(*             (src/src/loader/zip_traversal.rs).                          *)
(***************************************************************************)
EXTENDS Integers, Sequences, FiniteSets, TLC

\* ------------------------------------------------------------------------
\* Bounds of the model
\* ------------------------------------------------------------------------
MaxCpus == 3
MaxDatasets == 2
MaxCalls == 3
MaxMappings == 2
MaxZips == 2
MaxDepth == 3
MaxDump == 3
MaxRows == 3
MaxRuns == 2
MaxParts == 2
MaxVariants == 3
MaxVersions == 2
MaxChunks == 2
MaxDownloads == 3
MaxTrs == 2
MaxTds == 2
MaxSpan == 2
MaxCats == 2
MaxItems == 2
MaxItemBytes == 1
MaxDlWorkers == 2

\* ------------------------------------------------------------------------
\* State of Spec: LoadQueue, its tasks, and the caller
\* ------------------------------------------------------------------------
VARIABLES
    mode,              \* "load_all": the caller is Loader::load_all; "api": any sequence of push/close calls
    cpus,              \* num_cpus::get()
    output,            \* OutputTarget variant: "Postgres" or "File"
    nDatasets,         \* Loader.datasets.len()
    callerPc,          \* position of the caller
    pushIdx,           \* number of push() calls started (the ticket of the last pushed dataset)
    sender,            \* LoadQueue.sender is Some
    pb_status_sender,  \* LoadQueue.pb_status_sender is Some
    set,               \* LoadQueue.set is Some
    queue,             \* the unbounded work channel (tickets of queued datasets)
    pbQueue,           \* the unbounded progress channel
    workers,           \* the spawned dataset workers
    progressSpawned,   \* the progress task has been spawned
    wpc,               \* position of each worker
    witem,             \* the dataset a worker holds
    wmaps,             \* number of mappings returned by mapping resolution in the running load()
    wmi,               \* number of mappings load() has completed
    wres,              \* result of the load() a worker has just run
    ppc,               \* position of the progress task
    length,            \* progress task: total count
    position,          \* progress task: completed count
    callLog,           \* history: the push()/close() calls that have returned, with their results
    loadAllResult,     \* result of Loader::load_all ("none" while running)
    loads,             \* history, per ticket: which workers received it, load() results, mappings processed
    errLog,            \* history: tickets for which the worker printed "Error in loading dataset"
    finishedSent,      \* history: per ticket, number of finished=1 messages sent
    newRes,            \* history: result of LoadQueue::new
    adminiRes          \* history: result of load_admini_boundary

\* ------------------------------------------------------------------------
\* State of SpecLoad: one execution of load()
\* ------------------------------------------------------------------------
VARIABLES
    lOutput,           \* `output`: "Postgres" or "File"
    skip_if_exists,    \* `skip_if_exists`
    nZips,             \* dataset.zip_file_paths.len()
    field_mappings,    \* mapping.field_mappings: the declared (field_name, shape_name) pairs, in order
    lpc,               \* position inside load()
    mappings,          \* number of mappings returned by mapping resolution
    lm,                \* index of the mapping of the current iteration of `for mapping in mappings`
    lz,                \* number of archives of the current mapping already traversed
    shapefiles,        \* `shapefiles` of the current iteration (the archive each one came from)
    already_exists,    \* `already_exists` of the current iteration
    vrt_path,          \* `vrt_path`: NoVrt (None) or the descriptor written by create_vrt
    dest,              \* mappings whose output exists at the destination
    dest0,             \* history: `dest` when load() started
    metaStore,         \* mappings for which metadata has been produced (upsert or metadata file)
    trace,             \* history: the external steps load() has performed, in order
    upserts,           \* history: the keys the metadata sink's upsert was called with, in order
    queries,           \* history: the has_layer calls: the mapping, the state of the database, the result
    lResult            \* what load() returned ("none" while running)

\* ------------------------------------------------------------------------
\* State of SpecZip: one call of matching_shapefiles_in_zip
\* ------------------------------------------------------------------------
VARIABLES
    zArchive,          \* the entries of the archive at `zip_path` (nested archives inside their entries)
    zMapping,          \* `mapping`: its identifier and its shapefile_name_regex
    zpc,               \* position inside matching_shapefiles_in_zip
    zStack,            \* the active extract_zip calls, innermost last: outdir, entries, next index
    zOut,              \* `out` of the running top-level extract_zip call, in the order it is extended
    scratch,           \* the files in the scratch directory: path and contents
    copied,            \* history: the (normalized) entry names copied to the scratch directory
    zCalls,            \* history: the top-level extract_zip calls, with their matchers and results
    zResult,           \* what matching_shapefiles_in_zip returned (Running until it returns)
    zRuns              \* history: the earlier calls on the same archive and scratch root

\* ------------------------------------------------------------------------
\* State of SpecEnc: one call of detect_encoding
\* ------------------------------------------------------------------------
VARIABLES
    shape,             \* the Shapefile: what `ogrinfo -json` and `ogrinfo -al` report for it
    encPc,             \* position inside detect_encoding
    encoding           \* what detect_encoding returned (status "running" until it returns)

\* ------------------------------------------------------------------------
\* State of SpecParse: one call of parse_mapping_file
\* ------------------------------------------------------------------------
VARIABLES
    sheet,             \* the data rows of the catalog sheet, after the header row
    parsePc,           \* position inside parse_mapping_file: "row" (in the loop), "last", "done"
    rowIdx,            \* the index of the next row of `for row in sheet.rows()`
    builder,           \* `builder`: the record being assembled
    mOut,              \* `out`: the records built so far
    parseResult        \* what parse_mapping_file returned, or that it panicked

\* ------------------------------------------------------------------------
\* State of SpecRegex: create_shapefile_name_regex and a match of its result
\* ------------------------------------------------------------------------
VARIABLES
    template,          \* `template_string`: how it was put together, and its characters
    regex,             \* the pattern create_shapefile_name_regex returned
    rePc,              \* "derive", then "match", then "done"
    candidate,         \* the file name given to is_match, and how it was put together
    matched            \* what is_match returned

\* ------------------------------------------------------------------------
\* State of SpecResolve: mapping resolution for one dataset
\* ------------------------------------------------------------------------
VARIABLES
    rIdentifier,       \* the dataset's identifier
    rVariants,         \* the variants the catalog advertises for the dataset, in catalog order
    rPc,               \* "catalog", "override", "done"
    rCatalog,          \* the mappings catalog-driven resolution produced
    rMappings          \* the mappings resolution returned

\* ------------------------------------------------------------------------
\* State of SpecDownload: calls of download_to_tmp for one URL, and the server
\* ------------------------------------------------------------------------
VARIABLES
    srvVersion,        \* the version of the resource the server holds now
    file_path,         \* the file at `file_path`: the version it holds and how many chunks of it
    meta_path,         \* the file at `meta_path`: NoMeta, or the validators it stores
    dPc,               \* position inside download_to_tmp ("idle" between calls)
    response,          \* the version the 200 response in progress carries
    dCalls,            \* number of download_to_tmp calls started
    dReturned          \* history: the state of the file at each Ok(DownloadedFile) return

\* ------------------------------------------------------------------------
\* State of SpecTable: one call of parse_table
\* ------------------------------------------------------------------------
VARIABLES
    table,             \* the <tr> rows of the table, each the colspan and rowspan of its cells
    tPc,               \* position inside parse_table: "row", "cell", "finish", "done"
    row_index,         \* `row_index` of the outer loop
    cell_index,        \* the position of the next cell of the current <tr>
    grid,              \* `grid`: the rows built so far (0 for None, otherwise the cell)
    pending,           \* `pending`: (target_row, col_index, cell), in the order pushed
    col_index,         \* `col_index` of the inner loop
    array              \* the Array2 returned: nrows, ncols and its rows

\* ------------------------------------------------------------------------
\* State of SpecDownloadQueue: DownloadQueue, its tasks, and the caller
\* ------------------------------------------------------------------------
VARIABLES
    dqCaller,          \* the caller: "open", "joining" (inside close), "Ok", "panicked"
    dqSender,          \* `sender` is Some
    dqPbSender,        \* `pb_status_sender` is Some
    dqChan,            \* the DataItem channel
    dqPbChan,          \* the PBStatusUpdateMsg channel
    dqWpc,             \* each worker task: "recv", "downloading", "sending", "done",
                       \* "panicked", "aborted"
    dqItem,            \* the item each worker took last (NoItem before the first)
    dqPpc,             \* the progress task: "recv", "done", "aborted"
    dqLength,          \* `length` of the progress task
    dqPosition,        \* `position` of the progress task
    dqPushed,          \* the results of the push calls, in order
    dqFailed,          \* history: the ids of the items whose download returned Err
    dqReported,        \* history: the ids of the items sent as finished
    dqTaken            \* history: (worker, id) for every item received, in order

gvars == <<dqCaller, dqSender, dqPbSender, dqChan, dqPbChan, dqWpc, dqItem, dqPpc, dqLength,
           dqPosition, dqPushed, dqFailed, dqReported, dqTaken>>
qvars == <<mode, cpus, output, nDatasets, callerPc, pushIdx, sender, pb_status_sender, set,
           queue, pbQueue, workers, progressSpawned, wpc, witem, wmaps, wmi, wres, ppc,
           length, position, callLog, loadAllResult, loads, errLog, finishedSent,
           newRes, adminiRes>>

lvars == <<lOutput, skip_if_exists, nZips, field_mappings, lpc, mappings, lm, lz, shapefiles,
           already_exists, vrt_path, dest, dest0, metaStore, trace, upserts, queries, lResult>>
zvars == <<zArchive, zMapping, zpc, zStack, zOut, scratch, copied, zCalls, zResult, zRuns>>
ovars == <<shape, encPc, encoding, sheet, parsePc, rowIdx, builder, mOut, parseResult,
           template, regex, rePc, candidate, matched>>
rvars == <<rIdentifier, rVariants, rPc, rCatalog, rMappings>>
dvars == <<srvVersion, file_path, meta_path, dPc, response, dCalls, dReturned>>
tvars == <<table, tPc, row_index, cell_index, grid, pending, col_index, array>>
xvars == <<rvars, dvars, tvars, gvars>>
pvars == <<ovars, xvars>>
vars == <<qvars, lvars, zvars, pvars>>

MaxWorkers == MaxCpus
Tickets == 1..(MaxDatasets + MaxCalls)
WorkerIds == 1..MaxWorkers

Max2(a, b) == IF a >= b THEN a ELSE b

\* (variant: one worker per CPU)
sizePerCpu(n) == n

\* let size = max(num_cpus::get() - 1, 1);
size(n) == Max2(n - 1, 1)

NoLoad == [by |-> <<>>, results |-> <<>>, maps |-> <<>>]

\* (variant: recv() gives up as soon as the channel is empty, closed or not)
WorkClosedEarly == TRUE

\* the work channel is closed once its only Sender (LoadQueue.sender) is dropped
WorkClosed == ~sender

\* (variant: a clone of the progress sender is kept alive for ever)
PbClosedNever == FALSE

\* the progress channel is closed once LoadQueue.pb_status_sender and every worker's clone are dropped
PbClosed == ~pb_status_sender /\ \A w \in workers : wpc[w] = "done"

AllTasksDone == (\A w \in workers : wpc[w] = "done") /\ ppc = "done"

QInit ==
    /\ mode \in {"load_all", "api"}
    /\ cpus \in 1..MaxCpus
    /\ output \in {"Postgres", "File"}
    /\ nDatasets \in 0..MaxDatasets
    \* Loader.datasets and the output variant are read by load_all only
    /\ mode = "api" => (nDatasets = 0 /\ output = "File")
    /\ callerPc = "new"
    /\ pushIdx = 0
    /\ sender = FALSE
    /\ pb_status_sender = FALSE
    /\ set = FALSE
    /\ queue = <<>>
    /\ pbQueue = <<>>
    /\ workers = {}
    /\ progressSpawned = FALSE
    /\ wpc = [w \in WorkerIds |-> "unspawned"]
    /\ witem = [w \in WorkerIds |-> 0]
    /\ wmaps = [w \in WorkerIds |-> 0]
    /\ wmi = [w \in WorkerIds |-> 0]
    /\ wres = [w \in WorkerIds |-> "none"]
    /\ ppc = "unspawned"
    /\ length = 0
    /\ position = 0
    /\ callLog = <<>>
    /\ loadAllResult = "none"
    /\ loads = [t \in Tickets |-> NoLoad]
    /\ errLog = {}
    /\ finishedSent = [t \in Tickets |-> 0]
    /\ newRes = "none"
    /\ adminiRes = "none"

\* ------------------------------------------------------------------------
\* LoadQueue::new  (load_queue.rs 205-293)
\* ------------------------------------------------------------------------
\* create_dir_all(output_dir) / MetadataConnection::new(postgres_url) may fail: `?` returns
\* before anything is spawned.  Otherwise `size` workers and the progress task are spawned.
New ==
    /\ callerPc = "new"
    /\ \E ok \in BOOLEAN :
        IF ok
        THEN /\ newRes' = "Ok"
             /\ workers' = 1..size(cpus)
             /\ wpc' = [w \in WorkerIds |-> IF w \in 1..size(cpus) THEN "recv" ELSE "unspawned"]
             /\ progressSpawned' = TRUE
             /\ ppc' = "loop"
             /\ sender' = TRUE
             /\ pb_status_sender' = TRUE
             /\ set' = TRUE
             /\ callerPc' = IF mode = "load_all" THEN "push" ELSE "api"
             /\ UNCHANGED loadAllResult
        ELSE /\ newRes' = "Err"
             /\ callerPc' = "done"
             /\ loadAllResult' = "Err"
             /\ UNCHANGED <<workers, wpc, progressSpawned, ppc, sender, pb_status_sender, set>>
    /\ UNCHANGED <<mode, cpus, output, nDatasets, pushIdx, queue, pbQueue, witem, wmaps, wmi, wres,
                   length, position, callLog, loads, errLog, finishedSent, adminiRes>>
    /\ UNCHANGED <<lvars, zvars, pvars>>

\* ------------------------------------------------------------------------
\* LoadQueue::push  (load_queue.rs 295-311)
\* ------------------------------------------------------------------------
CallRec(op, res) == [op |-> op, res |-> res]

\* where the caller continues after a call has returned `res`
AfterCall(res) ==
    IF mode = "api" THEN "api"
    ELSE IF res = "Err" THEN "done" ELSE "push"

\* (variant: push() without the two already-closed guards)
PushBeginUnguarded ==
    /\ pbQueue' = Append(pbQueue, [added |-> 1, finished |-> 0])
    /\ pushIdx' = pushIdx + 1
    /\ callerPc' = "push_send"
    /\ UNCHANGED <<callLog, loadAllResult>>

\* the two `let Some(..) = .. else { return Err }` guards, then the progress message
PushBegin ==
    IF ~sender \/ ~pb_status_sender
    THEN /\ callLog' = Append(callLog, CallRec("push", "Err"))
         /\ callerPc' = AfterCall("Err")
         /\ loadAllResult' = IF mode = "load_all" THEN "Err" ELSE loadAllResult
         /\ UNCHANGED <<pbQueue, pushIdx>>
    ELSE /\ pbQueue' = Append(pbQueue, [added |-> 1, finished |-> 0])
         /\ pushIdx' = pushIdx + 1
         /\ callerPc' = "push_send"
         /\ UNCHANGED <<callLog, loadAllResult>>

PushUnchanged ==
    /\ UNCHANGED <<mode, cpus, output, nDatasets, sender, pb_status_sender, set, queue, workers,
                   progressSpawned, wpc, witem, wmaps, wmi, wres, ppc, length, position, loads,
                   errLog, finishedSent, newRes, adminiRes>>
    /\ UNCHANGED <<lvars, zvars, pvars>>

\* for dataset in self.datasets { load_queue.push(&dataset).await?; }
LoadAllPush ==
    /\ mode = "load_all"
    /\ callerPc = "push"
    /\ pushIdx < nDatasets
    /\ PushBegin
    /\ PushUnchanged

\* a push() call made by any other user of the queue
ApiPush ==
    /\ mode = "api"
    /\ callerPc = "api"
    /\ Len(callLog) < MaxCalls
    /\ PushBegin
    /\ PushUnchanged

\* sender.send(item.clone()).await?; Ok(())
PushSend ==
    /\ callerPc = "push_send"
    /\ queue' = Append(queue, pushIdx)
    /\ callLog' = Append(callLog, CallRec("push", "Ok"))
    /\ callerPc' = AfterCall("Ok")
    /\ UNCHANGED <<mode, cpus, output, nDatasets, pushIdx, sender, pb_status_sender, set, pbQueue,
                   workers, progressSpawned, wpc, witem, wmaps, wmi, wres, ppc, length, position,
                   loadAllResult, loads, errLog, finishedSent, newRes, adminiRes>>
    /\ UNCHANGED <<lvars, zvars, pvars>>

\* ------------------------------------------------------------------------
\* LoadQueue::close  (load_queue.rs 313-325)
\* ------------------------------------------------------------------------
\* the three take() guards, in the order of the code; a field taken before a failing guard stays taken
CloseBegin ==
    IF ~sender
    THEN /\ callLog' = Append(callLog, CallRec("close", "Err"))
         /\ callerPc' = AfterCall("Err")
         /\ loadAllResult' = IF mode = "load_all" THEN "Err" ELSE loadAllResult
         /\ UNCHANGED <<sender, set, pb_status_sender>>
    ELSE /\ sender' = FALSE
         /\ IF ~set
            THEN /\ callLog' = Append(callLog, CallRec("close", "Err"))
                 /\ callerPc' = AfterCall("Err")
                 /\ loadAllResult' = IF mode = "load_all" THEN "Err" ELSE loadAllResult
                 /\ UNCHANGED <<set, pb_status_sender>>
            ELSE /\ set' = FALSE
                 /\ IF ~pb_status_sender
                    THEN /\ callLog' = Append(callLog, CallRec("close", "Err"))
                         /\ callerPc' = AfterCall("Err")
                         /\ loadAllResult' = IF mode = "load_all" THEN "Err" ELSE loadAllResult
                         /\ UNCHANGED pb_status_sender
                    ELSE /\ pb_status_sender' = FALSE
                         /\ callerPc' = "joining"
                         /\ UNCHANGED <<callLog, loadAllResult>>

CloseUnchanged ==
    /\ UNCHANGED <<mode, cpus, output, nDatasets, pushIdx, queue, pbQueue, workers, progressSpawned,
                   wpc, witem, wmaps, wmi, wres, ppc, length, position, loads, errLog, finishedSent,
                   newRes, adminiRes>>
    /\ UNCHANGED <<lvars, zvars, pvars>>

\* load_queue.close().await?  after the push loop
LoadAllClose ==
    /\ mode = "load_all"
    /\ callerPc = "push"
    /\ pushIdx = nDatasets
    /\ CloseBegin
    /\ CloseUnchanged

ApiClose ==
    /\ mode = "api"
    /\ callerPc = "api"
    /\ Len(callLog) < MaxCalls
    /\ CloseBegin
    /\ CloseUnchanged

\* set.join_all().await; Ok(())
JoinAllReady == AllTasksDone

\* (variant: the administrative boundaries are loaded for every kind of destination)
AfterCloseAlwaysAdmini(out) == "admini"

\* if let OutputTarget::Postgres { postgres_url } = &self.output { load_admini_boundary(..)? }
\* (mod.rs 33-35): where load_all continues after close() returned Ok
AfterClose(out) == IF out = "Postgres" THEN "admini" ELSE "done"

CloseJoin ==
    /\ callerPc = "joining"
    /\ JoinAllReady
    /\ callLog' = Append(callLog, CallRec("close", "Ok"))
    /\ IF mode = "api"
       THEN callerPc' = "api" /\ UNCHANGED loadAllResult
       ELSE /\ callerPc' = AfterClose(output)
            /\ IF AfterClose(output) = "done" THEN loadAllResult' = "Ok"
                                              ELSE UNCHANGED loadAllResult
    /\ UNCHANGED <<mode, cpus, output, nDatasets, pushIdx, sender, pb_status_sender, set, queue,
                   pbQueue, workers, progressSpawned, wpc, witem, wmaps, wmi, wres, ppc, length,
                   position, loads, errLog, finishedSent, newRes, adminiRes>>
    /\ UNCHANGED <<lvars, zvars, pvars>>

\* admini_boundary::load_admini_boundary(postgres_url).await?; Ok(())   (mod.rs 33-36)
LoadAllAdmini ==
    /\ callerPc = "admini"
    /\ \E r \in {"Ok", "Err"} :
        /\ adminiRes' = r
        /\ loadAllResult' = r
    /\ callerPc' = "done"
    /\ UNCHANGED <<mode, cpus, output, nDatasets, pushIdx, sender, pb_status_sender, set, queue,
                   pbQueue, workers, progressSpawned, wpc, witem, wmaps, wmi, wres, ppc, length,
                   position, callLog, loads, errLog, finishedSent, newRes>>
    /\ UNCHANGED <<lvars, zvars, pvars>>

\* ------------------------------------------------------------------------
\* Dataset worker task  (load_queue.rs 232-260)
\* ------------------------------------------------------------------------
\* (variant: a broadcast channel, every receiver sees every message)
AfterRecvPeek(q) == q

\* async_channel delivers each message to exactly one receiver: recv() removes it from the channel
AfterRecv(q) == Tail(q)

WUnchanged ==
    /\ UNCHANGED <<mode, cpus, output, nDatasets, callerPc, pushIdx, sender, pb_status_sender, set,
                   workers, progressSpawned, ppc, length, position, callLog, loadAllResult,
                   newRes, adminiRes>>
    /\ UNCHANGED <<lvars, zvars, pvars>>

\* while let Ok(item) = receiver.recv().await : an item if one is queued, Err (leave the loop,
\* dropping the receiver and pb_sender) once the channel is closed and empty, otherwise wait
WorkerRecv(w) ==
    /\ w \in workers
    /\ wpc[w] = "recv"
    /\ IF queue # <<>>
       THEN /\ witem' = [witem EXCEPT ![w] = Head(queue)]
            /\ queue' = AfterRecv(queue)
            /\ loads' = [loads EXCEPT ![Head(queue)].by = Append(@, w)]
            /\ wpc' = [wpc EXCEPT ![w] = "send_start"]
       ELSE /\ WorkClosed
            /\ wpc' = [wpc EXCEPT ![w] = "done"]
            /\ UNCHANGED <<witem, queue, loads>>
    /\ UNCHANGED <<pbQueue, wmaps, wmi, wres, errLog, finishedSent>>
    /\ WUnchanged

\* pb_sender.send(PBStatusUpdateMsg { added: 0, finished: 0, msg: Some(identifier) })
WorkerSendStart(w) ==
    /\ w \in workers
    /\ wpc[w] = "send_start"
    /\ pbQueue' = Append(pbQueue, [added |-> 0, finished |-> 0])
    /\ wpc' = [wpc EXCEPT ![w] = "resolve"]
    /\ UNCHANGED <<queue, witem, wmaps, wmi, wres, loads, errLog, finishedSent>>
    /\ WUnchanged

\* load(): mapping::mapping_defs_for_dataset(dataset).await.with_context(..)?   (load_queue.rs 31-38)
LoadResolve(w) ==
    /\ w \in workers
    /\ wpc[w] = "resolve"
    /\ \E r \in {0} \cup (1..MaxMappings) :
        IF r = 0
        THEN /\ wres' = [wres EXCEPT ![w] = "Err"]
             /\ loads' = [loads EXCEPT ![witem[w]].results = Append(@, "Err")]
             /\ wpc' = [wpc EXCEPT ![w] = "loaded"]
             /\ UNCHANGED <<wmaps, wmi>>
        ELSE /\ wmaps' = [wmaps EXCEPT ![w] = r]
             /\ wmi' = [wmi EXCEPT ![w] = 0]
             /\ wpc' = [wpc EXCEPT ![w] = "mapping"]
             /\ UNCHANGED <<wres, loads>>
    /\ UNCHANGED <<queue, pbQueue, witem, errLog, finishedSent>>
    /\ WUnchanged

\* load(): one iteration of `for mapping in mappings` (load_queue.rs 40-187); any failing step
\* returns Err from load(), the end of the loop returns Ok(())
LoadMapping(w) ==
    /\ w \in workers
    /\ wpc[w] = "mapping"
    /\ \E ok \in BOOLEAN :
        LET t == witem[w]
            i == wmi[w] + 1
            res == IF ~ok THEN "Err" ELSE IF i = wmaps[w] THEN "Ok" ELSE "none"
        IN  /\ wmi' = [wmi EXCEPT ![w] = i]
            /\ wres' = [wres EXCEPT ![w] = res]
            /\ loads' = [loads EXCEPT ![t].maps = Append(@, <<w, i>>),
                                      ![t].results = IF res = "none" THEN @ ELSE Append(@, res)]
            /\ wpc' = [wpc EXCEPT ![w] = IF res = "none" THEN "mapping" ELSE "loaded"]
    /\ UNCHANGED <<queue, pbQueue, witem, wmaps, errLog, finishedSent>>
    /\ WUnchanged

\* (variant: the worker unwraps the result of load(), so an error ends its task)
AfterLoadStop(res) == IF res = "Err" THEN "done" ELSE "recv"

\* where the worker goes after load() has returned `res`: the error is only printed, the
\* finished message is sent and the loop goes on
AfterLoad(res) == "recv"

\* (variant: only a successful load() counts as finished)
FinishedIfOk(res) == IF res = "Err" THEN 0 ELSE 1

\* PBStatusUpdateMsg { added: 0, finished: 1, .. } after load() returned `res`   (load_queue.rs 251-256)
Finished(res) == 1

\* if let Err(e) = result { eprintln!(..) }  then  pb_sender.send(.. finished: 1 ..)
WorkerLoaded(w) ==
    /\ w \in workers
    /\ wpc[w] = "loaded"
    /\ errLog' = IF wres[w] = "Err" THEN errLog \cup {witem[w]} ELSE errLog
    /\ IF AfterLoad(wres[w]) = "recv"
       THEN /\ pbQueue' = Append(pbQueue, [added |-> 0, finished |-> Finished(wres[w])])
            /\ finishedSent' = [finishedSent EXCEPT ![witem[w]] = @ + 1]
       ELSE UNCHANGED <<pbQueue, finishedSent>>
    /\ wpc' = [wpc EXCEPT ![w] = AfterLoad(wres[w])]
    /\ wres' = [wres EXCEPT ![w] = "none"]
    /\ witem' = [witem EXCEPT ![w] = 0]
    /\ wmaps' = [wmaps EXCEPT ![w] = 0]
    /\ wmi' = [wmi EXCEPT ![w] = 0]
    /\ UNCHANGED <<queue, loads>>
    /\ WUnchanged

\* ------------------------------------------------------------------------
\* Progress task  (load_queue.rs 263-286)
\* ------------------------------------------------------------------------
\* while let Ok(msg) = pb_status_receiver.recv().await { length += msg.added; position += msg.finished; .. }
ProgressRecv ==
    /\ ppc = "loop"
    /\ IF pbQueue # <<>>
       THEN /\ length' = length + Head(pbQueue).added
            /\ position' = position + Head(pbQueue).finished
            /\ pbQueue' = Tail(pbQueue)
            /\ UNCHANGED ppc
       ELSE /\ PbClosed
            /\ ppc' = "done"
            /\ UNCHANGED <<length, position, pbQueue>>
    /\ UNCHANGED <<mode, cpus, output, nDatasets, callerPc, pushIdx, sender, pb_status_sender, set,
                   queue, workers, progressSpawned, wpc, witem, wmaps, wmi, wres, callLog,
                   loadAllResult, loads, errLog, finishedSent, newRes, adminiRes>>
    /\ UNCHANGED <<lvars, zvars, pvars>>

\* ------------------------------------------------------------------------
\* load()  (load_queue.rs 16-189), one call, step by step
\* ------------------------------------------------------------------------
\* the attribute names a Shapefile can carry
Attrs == {"a", "b"}

\* the declared field_mappings of the dataset's mappings
DeclaredChoices ==
    { <<>>,
      << <<"x", "a">> >>,
      << <<"x", "a">>, <<"y", "b">> >>,
      << <<"x", "c">>, <<"y", "b">>, <<"z", "a">> >> }

NoVrt == [ok |-> FALSE, shapes |-> <<>>, fields |-> <<>>]

\* LoadQueue::new: metadata_conn is Some exactly for a Postgres output  (load_queue.rs 216-220)
MetadataConn == lOutput = "Postgres"

\* let needs_load = !(skip_if_exists && already_exists);
NeedsLoad(skip, ex) == ~(skip /\ ex)

\* let needs_vrt = needs_load || (matches!(output, OutputTarget::File { .. }) && !shapefiles.is_empty());
NeedsVrt(out, skip, ex, shp) == NeedsLoad(skip, ex) \/ (out = "File" /\ shp # <<>>)

\* (variant: has_layer reports an existing table even when its query failed)
HasLayerExists(exists, reachable) == exists

\* one call of has_layer: for mapping m, with the table present or not and the database
\* reachable or not, returned "true", "false" or "Err"
Query(m, exists, reachable, res) == [m |-> m, exists |-> exists, reachable |-> reachable, res |-> res]

\* gdal::has_layer: Ok(output.status.success()); the SELECT succeeds only if ogrinfo reaches the
\* database and the table is there  (gdal.rs 104-116)
HasLayer(exists, reachable) == exists /\ reachable

\* gdal::create_vrt  (gdal.rs 9-72): NoVrt for Err, or the descriptor that is written.
\* attrsOk: get_attribute_list succeeded; ioOk: detect_encoding of every shape and the write succeeded
\* (variant: the empty-list guard of create_vrt removed)
ShapesEmptyNever(shapes) == FALSE

ShapesEmpty(shapes) == shapes = <<>>

\* (variant: no declared entry is pruned)
InAttrsAny(attributes, f) == TRUE

\* attributes.iter().find(|&attr| attr == shape_name).is_some(), f = (field_name, shape_name)
InAttrs(attributes, f) == f[2] \in attributes

PruneFields(declared, attributes) ==
    SelectSeq(declared, LAMBDA f : InAttrs(attributes, f))

CreateVrt(shapes, declared, attrsOk, attributes, ioOk) ==
    IF ShapesEmpty(shapes) THEN NoVrt
    ELSE IF ~attrsOk THEN NoVrt
    ELSE LET fields == PruneFields(declared, attributes)
         IN  IF fields = <<>> THEN NoVrt
             ELSE IF ~ioOk THEN NoVrt
             ELSE [ok |-> TRUE, shapes |-> shapes, fields |-> fields]

\* mapping.identifier of the dataset's mappings, in resolution order
Identifier(m) == CASE m = 1 -> "A38a" [] m = 2 -> "N03" [] OTHER -> "p05"

\* (variant: the identifier used as the catalog spells it)
ToLowercaseKeep(id) == id

\* str::to_lowercase on the identifiers above
ToLowercase(id) == CASE id = "A38a" -> "a38a" [] id = "N03" -> "n03" [] OTHER -> id

\* MetadataConnection::create_dataset: the key handed to upsert   (metadata.rs 162-166)
CreateDatasetKey(identifier) == ToLowercase(identifier)

\* an external step of load(): what was done, for which mapping, what the existence check
\* reported, and the descriptor a conversion was given
Event(ev, m, ex, vrt) == [ev |-> ev, m |-> m, ex |-> ex, vrt |-> vrt]

LInit ==
    /\ lOutput \in {"Postgres", "File"}
    /\ skip_if_exists \in BOOLEAN
    /\ nZips \in 0..MaxZips
    /\ field_mappings \in DeclaredChoices
    /\ lpc = "start"
    /\ mappings = 0
    /\ lm = 0
    /\ lz = 0
    /\ shapefiles = <<>>
    /\ already_exists = FALSE
    /\ vrt_path = NoVrt
    /\ dest \in SUBSET (1..MaxMappings)
    /\ dest0 = dest
    /\ metaStore = {}
    /\ trace = <<>>
    /\ upserts = <<>>
    /\ queries = <<>>
    /\ lResult = "none"

LConfigUnchanged == UNCHANGED <<lOutput, skip_if_exists, nZips, field_mappings, dest0>>

\* (variant: the error of a step is swallowed and the iteration goes on to its metadata)
LFailSwallowed ==
    /\ lpc' = "meta"
    /\ lResult' = lResult

\* `?` on a failing step: load() returns Err
LFail ==
    /\ lpc' = "done"
    /\ lResult' = "Err"

\* the top of one iteration of `for mapping in mappings`; `let mut shapefiles = Vec::new()`
LIterStart == IF nZips = 0 THEN "check" ELSE "extract"

\* tokio::fs::create_dir_all(&vrt_tmp).await.with_context(..)?   (load_queue.rs 22-26)
LStart ==
    /\ lpc = "start"
    /\ \E ok \in BOOLEAN :
        IF ok THEN lpc' = "resolve" /\ UNCHANGED lResult ELSE LFail
    /\ UNCHANGED <<mappings, lm, lz, shapefiles, already_exists, vrt_path, dest, metaStore, trace>>
    /\ UNCHANGED <<upserts, queries>>
    /\ LConfigUnchanged
    /\ UNCHANGED <<qvars, zvars, pvars>>

\* mapping::mapping_defs_for_dataset(dataset).await.with_context(..)?   (load_queue.rs 31-38)
LResolve ==
    /\ lpc = "resolve"
    /\ \E r \in 0..MaxMappings :
        IF r = 0
        THEN LFail /\ UNCHANGED <<mappings, lm>>
        ELSE /\ mappings' = r
             /\ lm' = 1
             /\ lpc' = LIterStart
             /\ UNCHANGED lResult
    /\ UNCHANGED <<lz, shapefiles, already_exists, vrt_path, dest, metaStore, trace>>
    /\ UNCHANGED <<upserts, queries>>
    /\ LConfigUnchanged
    /\ UNCHANGED <<qvars, zvars, pvars>>

\* for zip_file_path in &dataset.zip_file_paths { matching_shapefiles_in_zip(..)?; shapefiles.extend(..) }
\* (load_queue.rs 48-60)
LExtract ==
    /\ lpc = "extract"
    /\ lz < nZips
    /\ \E r \in {"Err", "none", "found"} :
        IF r = "Err"
        THEN LFail /\ UNCHANGED <<lz, shapefiles, trace>>
        ELSE /\ lz' = lz + 1
             /\ shapefiles' = IF r = "found" THEN Append(shapefiles, lz + 1) ELSE shapefiles
             /\ trace' = Append(trace, Event("extract", lm, FALSE, NoVrt))
             /\ lpc' = IF lz + 1 = nZips THEN "check" ELSE "extract"
             /\ UNCHANGED lResult
    /\ UNCHANGED <<mappings, lm, already_exists, vrt_path, dest, metaStore>>
    /\ UNCHANGED <<upserts, queries>>
    /\ LConfigUnchanged
    /\ UNCHANGED <<qvars, zvars, pvars>>

\* if skip_if_exists && already_exists { println!(.. skipping) } else if needs_load { convert }
\* (load_queue.rs 93-134): the step that follows the descriptor step
\* (variant: the conversion runs whatever the existence check reported)
AfterVrtAlwaysLoad(ex) == "convert"

AfterVrt(ex) ==
    IF skip_if_exists /\ ex THEN "meta"
    ELSE IF NeedsLoad(skip_if_exists, ex) THEN "convert"
    ELSE "meta"

\* if needs_vrt { create_vrt .. }   (load_queue.rs 85-91): the step that follows the existence check
AfterCheck(ex) ==
    IF NeedsVrt(lOutput, skip_if_exists, ex, shapefiles) THEN "vrt" ELSE AfterVrt(ex)

\* let already_exists = if skip_if_exists { has_layer / path.exists() } else { false }
\* (load_queue.rs 64-79)
LCheck ==
    /\ lpc = "check"
    /\ IF skip_if_exists
       THEN \E spawned \in BOOLEAN, reachable \in BOOLEAN :
              IF lOutput = "Postgres" /\ ~spawned
              THEN /\ LFail
                   /\ queries' = Append(queries, Query(lm, lm \in dest, reachable, "Err"))
                   /\ UNCHANGED <<already_exists, trace>>
              ELSE LET ex == IF lOutput = "Postgres" THEN HasLayer(lm \in dest, reachable)
                                                     ELSE lm \in dest
                   IN  /\ already_exists' = ex
                       /\ queries' = IF lOutput = "Postgres"
                                     THEN Append(queries, Query(lm, lm \in dest, reachable,
                                                                IF ex THEN "true" ELSE "false"))
                                     ELSE queries
                       /\ trace' = Append(trace, Event("check", lm, ex, NoVrt))
                       /\ lpc' = AfterCheck(ex)
                       /\ UNCHANGED lResult
       ELSE /\ already_exists' = FALSE
            /\ lpc' = AfterCheck(FALSE)
            /\ UNCHANGED <<trace, lResult, queries>>
    /\ UNCHANGED <<mappings, lm, lz, shapefiles, vrt_path, dest, metaStore>>
    /\ UNCHANGED upserts
    /\ LConfigUnchanged
    /\ UNCHANGED <<qvars, zvars, pvars>>

\* if needs_vrt { gdal::create_vrt(&path, &shapefiles, &mapping).await.context(..)?; vrt_path = Some(path) }
\* (load_queue.rs 84-91), then the branch of lines 93-106
LVrt ==
    /\ lpc = "vrt"
    /\ \E attrsOk \in BOOLEAN, attributes \in SUBSET Attrs, ioOk \in BOOLEAN :
        LET r == CreateVrt(shapefiles, field_mappings, attrsOk, attributes, ioOk)
        IN  IF ~r.ok
            THEN LFail /\ UNCHANGED <<vrt_path, trace>>
            ELSE /\ vrt_path' = r
                 /\ trace' = Append(trace, Event("vrt", lm, FALSE, r))
                 /\ lpc' = AfterVrt(already_exists)
                 /\ UNCHANGED lResult
    /\ UNCHANGED <<mappings, lm, lz, shapefiles, already_exists, dest, metaStore>>
    /\ UNCHANGED <<upserts, queries>>
    /\ LConfigUnchanged
    /\ UNCHANGED <<qvars, zvars, pvars>>

\* else if needs_load { gdal::load_to_postgres(..)? / gdal::load_to_file(..)? }   (load_queue.rs 106-134)
LConvert ==
    /\ lpc = "convert"
    /\ IF ~vrt_path.ok
       THEN LFail /\ UNCHANGED <<dest, trace>>
       ELSE \E ok \in BOOLEAN :
              /\ trace' = Append(trace, Event("convert", lm, FALSE, vrt_path))
              /\ IF ok
                 THEN dest' = dest \cup {lm} /\ lpc' = "meta" /\ UNCHANGED lResult
                 ELSE LFail /\ UNCHANGED dest
    /\ UNCHANGED <<mappings, lm, lz, shapefiles, already_exists, vrt_path, metaStore>>
    /\ UNCHANGED <<upserts, queries>>
    /\ LConfigUnchanged
    /\ UNCHANGED <<qvars, zvars, pvars>>

\* metadata for the mapping (load_queue.rs 136-186), then the next iteration or Ok(())
LMeta ==
    /\ lpc = "meta"
    /\ \E ok \in BOOLEAN :
        IF ~ok
        THEN LFail /\ UNCHANGED <<metaStore, trace, upserts, lm, lz, shapefiles, already_exists, vrt_path>>
        ELSE /\ metaStore' = metaStore \cup {lm}
             /\ upserts' = IF MetadataConn
                           THEN Append(upserts, CreateDatasetKey(ToLowercase(Identifier(lm))))
                           ELSE upserts
             /\ trace' = Append(trace, Event(IF MetadataConn THEN "upsert" ELSE "metafile", lm, FALSE, NoVrt))
             /\ IF lm < mappings
                THEN /\ lm' = lm + 1
                     /\ lz' = 0
                     /\ shapefiles' = <<>>
                     /\ already_exists' = FALSE
                     /\ vrt_path' = NoVrt
                     /\ lpc' = LIterStart
                     /\ UNCHANGED lResult
                ELSE /\ lpc' = "done"
                     /\ lResult' = "Ok"
                     /\ UNCHANGED <<lm, lz, shapefiles, already_exists, vrt_path>>
    /\ UNCHANGED <<mappings, dest, queries>>
    /\ LConfigUnchanged
    /\ UNCHANGED <<qvars, zvars, pvars>>



\* ------------------------------------------------------------------------
\* Archive entries, paths and matchers  (zip_traversal.rs, mapping.rs)
\* ------------------------------------------------------------------------
\* An entry name is its directory segments, the separator the archive was written with,
\* and the base and extension of its last segment.
EntryName(dir, sep, base, ext) == [dir |-> dir, sep |-> sep, base |-> base, ext |-> ext]

DenyDir == <<"N08-21_GML", "utf8">>

PlainNames ==
    { EntryName(<<>>, "/", "A", "shp"),
      EntryName(DenyDir, "/", "A", "shp"),
      EntryName(<<"sub">>, "\\", "A", "dbf"),
      EntryName(<<>>, "/", "xA", "shp"),
      EntryName(<<>>, "/", "A", "txt"),
      EntryName(<<"sub">>, "/", "xPolygon", "shp"),
      EntryName(<<>>, "/", "A", "SHP") }

ZipNames ==
    { EntryName(<<>>, "/", "in", "zip"),
      EntryName(DenyDir, "/", "in", "zip") }

Entry(name, content) == [name |-> name, content |-> content]

\* every archive of nesting depth at most d: an optional nested ZIP followed by an optional file
RECURSIVE ArchivesOfDepth(_)
ArchivesOfDepth(d) ==
    IF d = 0 THEN {}
    ELSE LET zipOpts == {<<>>} \cup { <<Entry(zn, c)>> : zn \in ZipNames, c \in ArchivesOfDepth(d - 1) }
             plainOpts == {<<>>} \cup { <<Entry(n, <<>>)>> : n \in PlainNames }
         IN  { z \o f : z \in zipOpts, f \in plainOpts }

\* file.name().to_string().replace("\\", "/")
Normalize(name) == [name EXCEPT !.sep = "/"]

\* (variant: the entry name used as the archive stores it)
FileNameRaw(entry) == entry.name

FileName(entry) == Normalize(entry.name)

\* file_name.ends_with(".zip")
EndsWithZip(name) == name.ext = "zip"

\* file_name.starts_with("N08-21_GML/utf8/")
StartsWithDeny(name) ==
    /\ name.sep = "/"
    /\ Len(name.dir) >= 2
    /\ SubSeq(name.dir, 1, 2) = DenyDir

Lower(ext) == IF ext = "SHP" THEN "shp" ELSE ext

\* (?i:(?:\.shp|\.cpg|\.dbf|\.prj|\.qmd|\.shx))$
Sidecar(name) == Lower(name.ext) \in {"shp", "cpg", "dbf", "prj", "qmd", "shx"}

\* the last segment starts the string or follows a '/'
SegmentStart(name) == name.dir = <<>> \/ name.sep = "/"

PreciseMatcher(base) == [kind |-> "precise", base |-> base]
PolygonMatcher == [kind |-> "polygon", base |-> ""]
CatchAllMatcher == [kind |-> "any", base |-> ""]

\* Regex::is_match(&file_name) for the three kinds of pattern the loader builds:
\*   (?:^|/)<template>(?i:sidecar)$     create_shapefile_name_regex (mapping.rs 76-95)
\*   Po?lygon(?i:sidecar)$              zip_traversal.rs 66-68
\*   (?i:sidecar)$                      zip_traversal.rs 87-89, mapping.rs 104-107
IsMatch(r, name) ==
    CASE r.kind = "precise" -> SegmentStart(name) /\ name.base = r.base /\ Sidecar(name)
      [] r.kind = "polygon" -> name.base \in {"Polygon", "xPolygon", "Plygon", "xPlygon"} /\ Sidecar(name)
      [] OTHER -> Sidecar(name)

\* matchers.iter().any(|r| r.is_match(&file_name))
AnyMatch(matchers, name) == \E k \in 1..Len(matchers) : IsMatch(matchers[k], name)

\* outdir.join(&file_name)
Join(outdir, name) == [dir |-> outdir \o name.dir, base |-> name.base, ext |-> name.ext]

\* outdir.join(zip_filename).with_extension("")
ZipOutdir(outdir, zipBase) == Append(outdir, zipBase)

Mappings ==
    { [identifier |-> "A33", shapefile_name_regex |-> <<PreciseMatcher("A")>>],
      [identifier |-> "X", shapefile_name_regex |-> <<PreciseMatcher("A")>>],
      [identifier |-> "X", shapefile_name_regex |-> <<CatchAllMatcher>>] }

\* tmp.join("shp"), and the stem of the archive's own file name
ShpTmp == <<"shp">>
TopZip == "top"

\* Result<Vec<PathBuf>>, or Running while the call has not returned
Running == [status |-> "running", paths |-> <<>>]
Err == [status |-> "Err", paths |-> <<>>]
Ok(paths) == [status |-> "Ok", paths |-> paths]

ZInit ==
    /\ zArchive \in ArchivesOfDepth(MaxDepth)
    /\ zMapping \in Mappings
    /\ zpc = "start"
    /\ zStack = <<>>
    /\ zOut = <<>>
    /\ scratch = {}
    /\ copied = {}
    /\ zCalls = <<>>
    /\ zResult = Running
    /\ zRuns = <<>>

ZIdle ==
    /\ zArchive = <<>>
    /\ zMapping = [identifier |-> "X", shapefile_name_regex |-> <<CatchAllMatcher>>]
    /\ zpc = "off"
    /\ zStack = <<>>
    /\ zOut = <<>>
    /\ scratch = {}
    /\ copied = {}
    /\ zCalls = <<>>
    /\ zResult = Running
    /\ zRuns = <<>>

Frame(outdir, entries) == [outdir |-> outdir, entries |-> entries, i |-> 1]

\* the matchers of the first pass  (zip_traversal.rs 60-82)
FirstMatchers(mapping) ==
    IF mapping.identifier = "A33" THEN <<PolygonMatcher>> ELSE mapping.shapefile_name_regex

\* the matchers of the running top-level extract_zip call
Matchers == zCalls[Len(zCalls)].matchers

\* extract_zip returns Err: `?` / `??` in matching_shapefiles_in_zip returns it
ZFail ==
    /\ zpc' = "done"
    /\ zResult' = Err
    /\ zStack' = <<>>
    /\ zCalls' = IF zCalls = <<>> THEN zCalls
                 ELSE [zCalls EXCEPT ![Len(zCalls)].out = Err]

\* tokio::fs::create_dir_all(&shp_tmp).await?; then the first extract_zip call opens the archive
\* (zip_traversal.rs 55-82, 16-20)
ZStart ==
    /\ zpc = "start"
    /\ \E ok \in BOOLEAN :
        IF ok
        THEN /\ zCalls' = <<[matchers |-> FirstMatchers(zMapping), out |-> Running]>>
             /\ zStack' = <<Frame(ZipOutdir(ShpTmp, TopZip), zArchive)>>
             /\ zpc' = "walk"
             /\ UNCHANGED zResult
        ELSE ZFail
    /\ UNCHANGED <<zArchive, zMapping, zOut, scratch, copied, zRuns>>
    /\ UNCHANGED <<qvars, lvars, pvars>>

\* where the entry being visited sits in the archive tree: its index in each enclosing
\* archive, outermost first (it stands for the bytes of the entry)
EntryAt(stack) ==
    [j \in 1..Len(stack) |-> IF j < Len(stack) THEN stack[j].i - 1 ELSE stack[j].i]

\* (variant: an existing file is opened for appending instead of being truncated)
WriteAppend(scr, path, data) ==
    LET old == { f \in scr : f.path = path }
    IN  (scr \ old) \cup
        { [path |-> path, data |-> (IF old = {} THEN <<>> ELSE (CHOOSE f \in old : TRUE).data) \o data] }

\* std::io::copy(&mut file, &mut File::create(&dest_path)?): File::create truncates an
\* existing file, so the path holds exactly the bytes of the entry written last
Write(scr, path, data) ==
    { f \in scr : f.path # path } \cup { [path |-> path, data |-> data] }

\* one iteration of `for i in 0..zip.len()` of the innermost extract_zip call  (zip_traversal.rs 22-46)
ZipEntry ==
    /\ zpc = "walk"
    /\ zStack # <<>>
    /\ LET top == Len(zStack)
           f == zStack[top]
       IN  /\ f.i <= Len(f.entries)
           /\ \E ok \in BOOLEAN :
               LET e == f.entries[f.i]
                   file_name == FileName(e)
                   dest_path == Join(f.outdir, file_name)
                   advanced == [zStack EXCEPT ![top].i = f.i + 1]
               IN  IF ~ok
                   THEN ZFail /\ UNCHANGED <<zOut, scratch, copied>>
                   ELSE IF EndsWithZip(file_name)
                   THEN /\ scratch' = Write(scratch, dest_path, <<EntryAt(zStack)>>)
                        /\ copied' = copied \cup {file_name}
                        /\ zStack' = Append(advanced, Frame(ZipOutdir(f.outdir, file_name.base), e.content))
                        /\ UNCHANGED <<zOut, zpc, zResult, zCalls>>
                   ELSE IF AnyMatch(Matchers, file_name) /\ ~StartsWithDeny(file_name)
                   THEN /\ scratch' = Write(scratch, dest_path, <<EntryAt(zStack)>>)
                        /\ copied' = copied \cup {file_name}
                        /\ zOut' = Append(zOut, dest_path)
                        /\ zStack' = advanced
                        /\ UNCHANGED <<zpc, zResult, zCalls>>
                   ELSE /\ zStack' = advanced
                        /\ UNCHANGED <<zOut, scratch, copied, zpc, zResult, zCalls>>
    /\ UNCHANGED <<zArchive, zMapping, zRuns>>
    /\ UNCHANGED <<qvars, lvars, pvars>>

\* Ok(out) of a nested extract_zip call: the caller extends its `out` and goes on  (zip_traversal.rs 33-36, 47)
ZipReturn ==
    /\ zpc = "walk"
    /\ Len(zStack) > 1
    /\ zStack[Len(zStack)].i > Len(zStack[Len(zStack)].entries)
    /\ zStack' = SubSeq(zStack, 1, Len(zStack) - 1)
    /\ UNCHANGED <<zArchive, zMapping, zpc, zOut, scratch, copied, zCalls, zResult, zRuns>>
    /\ UNCHANGED <<qvars, lvars, pvars>>

\* archives with up to two nested ZIPs side by side, in different directories or with
\* different stems, and an optional file next to them
SiblingFiles ==
    { EntryName(<<>>, "/", "A", "shp"),
      EntryName(<<"sub">>, "\\", "A", "dbf") }

InnerArchives ==
    { <<Entry(n, <<>>)>> : n \in SiblingFiles }
        \cup { <<Entry(EntryName(<<>>, "/", "A", "shp"), <<>>),
                 Entry(EntryName(<<"sub">>, "\\", "A", "dbf"), <<>>)>> }

SiblingArchives ==
    LET firstZip == { EntryName(<<>>, "/", "in", "zip"), EntryName(<<"x">>, "/", "in", "zip") }
        secondZip == { EntryName(<<"y">>, "/", "in", "zip"), EntryName(<<>>, "/", "in2", "zip") }
        opt1 == {<<>>} \cup { <<Entry(zn, c)>> : zn \in firstZip, c \in InnerArchives }
        opt2 == {<<>>} \cup { <<Entry(zn, c)>> : zn \in secondZip, c \in InnerArchives }
        opt3 == {<<>>, <<Entry(EntryName(<<>>, "/", "A", "shp"), <<>>)>>}
    IN  { a \o b \o c : a \in opt1, b \in opt2, c \in opt3 }

\* matching_shapefiles_in_zip is called again with the same archive, mapping and scratch
\* root (load() calls it once per mapping and archive; a later run calls it again)
ZRerun ==
    /\ zpc = "done"
    /\ Len(zRuns) < MaxRuns - 1
    /\ zRuns' = Append(zRuns, [calls |-> zCalls, result |-> zResult, scratch |-> scratch])
    /\ zpc' = "start"
    /\ zStack' = <<>>
    /\ zOut' = <<>>
    /\ zCalls' = <<>>
    /\ zResult' = Running
    /\ UNCHANGED <<zArchive, zMapping, scratch, copied>>
    /\ UNCHANGED <<qvars, lvars, pvars>>

\* all_paths.iter().filter(|p| p.extension().unwrap() == "shp")   (zip_traversal.rs 100-104)
IsShp(p) == p.ext = "shp"

ShapefilePaths(all_paths) == SelectSeq(all_paths, IsShp)

\* if all_paths.is_empty() { .. expanded matchers .. }   (zip_traversal.rs 84)
\* (variant: the catch-all pass runs after every first pass)
NeedsExpandAlways(all_paths) == TRUE

NeedsExpand(all_paths) == all_paths = <<>>

\* Ok(out) of the top-level extract_zip call: retry with the catch-all matcher after an empty first
\* pass, otherwise return the .shp paths  (zip_traversal.rs 84-116)
ZPassEnd ==
    /\ zpc = "walk"
    /\ Len(zStack) = 1
    /\ zStack[1].i > Len(zStack[1].entries)
    /\ LET done == [zCalls EXCEPT ![Len(zCalls)].out = Ok(zOut)]
       IN  IF Len(zCalls) = 1 /\ NeedsExpand(zOut)
           THEN /\ zCalls' = Append(done, [matchers |-> <<CatchAllMatcher>>, out |-> Running])
                /\ zStack' = <<Frame(ZipOutdir(ShpTmp, TopZip), zArchive)>>
                /\ zOut' = <<>>
                /\ UNCHANGED <<zpc, zResult>>
           ELSE /\ zCalls' = done
                /\ zStack' = <<>>
                /\ zpc' = "done"
                /\ zResult' = Ok(ShapefilePaths(zOut))
                /\ UNCHANGED zOut
    /\ UNCHANGED <<zArchive, zMapping, scratch, copied, zRuns>>
    /\ UNCHANGED <<qvars, lvars, pvars>>

\* ------------------------------------------------------------------------
\* detect_encoding  (gdal.rs 146-229)
\* ------------------------------------------------------------------------
\* static ENCODINGS: the candidates of the fallback, in the order they are tried
\* (variant: the candidates tried in the opposite order)
EncodingsUtf8First == <<"UTF-8", "CP932">>

ENCODINGS == <<"CP932", "UTF-8">>

\* sample bytes: 'A', 0x82, 0xA0, 0xE3, 0xFF.  0x82 0xA0 is a Shift_JIS character,
\* 0xE3 0x82 0xA0 is a UTF-8 character, 0xFF is valid in neither encoding.
Bytes == {65, 130, 160, 227, 255}

RECURSIVE SeqsUpTo(_, _)
SeqsUpTo(S, n) ==
    IF n = 0 THEN {<<>>}
    ELSE LET shorter == SeqsUpTo(S, n - 1)
         IN  shorter \cup { Append(q, b) : q \in shorter, b \in S }

Cont(b) == b \in 128..191

\* encoding_rs SHIFT_JIS.decode(data).had_errors: single bytes 0x00-0x80 and 0xA1-0xDF, or a
\* lead byte 0x81-0x9F / 0xE0-0xFC followed by a trail byte 0x40-0x7E / 0x80-0xFC
RECURSIVE SjisHadErrors(_)
SjisHadErrors(data) ==
    IF data = <<>> THEN FALSE
    ELSE LET b == Head(data)
         IN  IF b <= 128 \/ b \in 161..223 THEN SjisHadErrors(Tail(data))
             ELSE IF b \in (129..159) \cup (224..252)
             THEN IF Len(data) < 2 THEN TRUE
                  ELSE IF data[2] \in (64..126) \cup (128..252)
                  THEN SjisHadErrors(Tail(Tail(data)))
                  ELSE TRUE
             ELSE TRUE

\* encoding_rs UTF_8.decode(data).had_errors: well-formed UTF-8 sequences only
RECURSIVE Utf8HadErrors(_)
Utf8HadErrors(data) ==
    IF data = <<>> THEN FALSE
    ELSE LET b == Head(data)
             n == IF b < 128 THEN 1
                  ELSE IF b \in 194..223 THEN 2
                  ELSE IF b \in 224..239 THEN 3
                  ELSE IF b \in 240..244 THEN 4
                  ELSE 0
         IN  IF n = 0 \/ Len(data) < n THEN TRUE
             ELSE IF \E k \in 2..n : ~Cont(data[k]) THEN TRUE
             ELSE IF b = 224 /\ data[2] < 160 THEN TRUE
             ELSE IF b = 237 /\ data[2] > 159 THEN TRUE
             ELSE IF b = 240 /\ data[2] < 144 THEN TRUE
             ELSE IF b = 244 /\ data[2] > 143 THEN TRUE
             ELSE Utf8HadErrors(SubSeq(data, n + 1, Len(data)))

\* let (_decoded, _, had_errors) = encoding.decode(data)   (gdal.rs 178)
HadErrors(name, data) == IF name = "CP932" THEN SjisHadErrors(data) ELSE Utf8HadErrors(data)

\* Result<String> of detect_encoding
EncRunning == [status |-> "running", name |-> ""]
EncErr == [status |-> "Err", name |-> ""]
EncOk(name) == [status |-> "Ok", name |-> name]

\* $.layers[0].metadata.SHAPEFILE.SOURCE_ENCODING of the `ogrinfo -json` output: absent, or a string
SourceEncodings ==
    { [present |-> FALSE, value |-> ""],
      [present |-> TRUE, value |-> ""],
      [present |-> TRUE, value |-> "CP932"],
      [present |-> TRUE, value |-> "UTF-8"],
      [present |-> TRUE, value |-> "ISO-8859-1"] }

\* a Shapefile as the two ogrinfo runs see it: jsonOk / dumpOk: the process succeeded;
\* opened: the dump contains "successful"; data: the bytes of the dump after "successful"
Shapes ==
    [ jsonOk : BOOLEAN, source_encoding : SourceEncodings,
      dumpOk : BOOLEAN, opened : BOOLEAN, data : SeqsUpTo(Bytes, MaxDump) ]

EInit ==
    /\ shape \in Shapes
    /\ encPc = "ogrinfo"
    /\ encoding = EncRunning

EIdle ==
    /\ shape = [jsonOk |-> FALSE, source_encoding |-> [present |-> FALSE, value |-> ""],
                dumpOk |-> FALSE, opened |-> FALSE, data |-> <<>>]
    /\ encPc = "off"
    /\ encoding = EncRunning

\* for (name, encoding) in ENCODINGS { if !had_errors { return Ok(Some(name)) } } Ok(None)
\* (gdal.rs 176-184): the first candidate, from position k on, that decodes data; 0 if none
RECURSIVE FirstDecoding(_, _, _)
FirstDecoding(candidates, k, data) ==
    IF k > Len(candidates) THEN 0
    ELSE IF ~HadErrors(candidates[k], data) THEN k
    ELSE FirstDecoding(candidates, k + 1, data)

\* detect_encoding_ogrinfo(shape).await?; if let Some(encoding) = encoding { return Ok(encoding) }
\* (gdal.rs 187-216, 219-222)
DetectEncodingOgrinfo ==
    /\ encPc = "ogrinfo"
    /\ IF ~shape.jsonOk
       THEN encPc' = "done" /\ encoding' = EncErr
       ELSE IF shape.source_encoding.present /\ shape.source_encoding.value # ""
       THEN encPc' = "done" /\ encoding' = EncOk(shape.source_encoding.value)
       ELSE encPc' = "fallback" /\ UNCHANGED encoding
    /\ UNCHANGED shape
    /\ UNCHANGED <<sheet, parsePc, rowIdx, builder, mOut, parseResult>>
    /\ UNCHANGED <<template, regex, rePc, candidate, matched>>
    /\ UNCHANGED <<qvars, lvars, zvars, xvars>>

\* detect_encoding_fallback(shape).await? and the final bail!   (gdal.rs 158-185, 224-228)
DetectEncodingFallback ==
    /\ encPc = "fallback"
    /\ encPc' = "done"
    /\ IF ~shape.dumpOk \/ ~shape.opened
       THEN encoding' = EncErr
       ELSE LET k == FirstDecoding(ENCODINGS, 1, shape.data)
            IN  encoding' = IF k = 0 THEN EncErr ELSE EncOk(ENCODINGS[k])
    /\ UNCHANGED shape
    /\ UNCHANGED <<sheet, parsePc, rowIdx, builder, mOut, parseResult>>
    /\ UNCHANGED <<template, regex, rePc, candidate, matched>>
    /\ UNCHANGED <<qvars, lvars, zvars, xvars>>

\* ------------------------------------------------------------------------
\* parse_mapping_file  (mapping.rs 191-276)
\* ------------------------------------------------------------------------
\* A data row, by the cells the parser reads: head: 0 if the category / name / version / year
\* cells (columns 0-4) are empty, else the category they carry; id: the identifier cell
\* (column 8) is set; field: the field-name and attribute-code cells (columns 6, 7) are set.
\* The rows of this model leave the shapefile-name cell empty and carry no A38 identifier.
Rows == [head : 0..MaxCats, id : BOOLEAN, field : BOOLEAN]

\* ShapefileMetadataBuilder::default()
DefaultBuilder == [head |-> 0, id |-> FALSE, fields |-> 0]

\* should_start_new_metadata_record  (mapping.rs 127-171): the category cells are set and
\* differ from the builder's
ShouldStartNew(b, row) == row.head # 0 /\ b.head # 0 /\ b.head # row.head

\* the setters applied for one row  (mapping.rs 218-267)
Fill(b, row) ==
    [head |-> IF row.head # 0 THEN row.head ELSE b.head,
     id |-> b.id \/ row.id,
     fields |-> IF row.field THEN b.fields + 1 ELSE b.fields]

\* builder.build() is Ok: no required field is uninitialized  (mapping.rs 13-42)
BuildOk(b) == b.head # 0 /\ b.id /\ b.fields > 0

\* the ShapefileMetadata that builder.build() returns
Build(b) == [head |-> b.head, fields |-> b.fields]

\* Result<Vec<ShapefileMetadata>>, or the panic of line 213
ParseRunning == [status |-> "running", out |-> <<>>]
ParsePanic == [status |-> "panic", out |-> <<>>]
ParseOk(list) == [status |-> "Ok", out |-> list]

MInit ==
    /\ sheet \in UNION { [1..n -> Rows] : n \in 0..MaxRows }
    /\ parsePc = IF sheet = <<>> THEN "last" ELSE "row"
    /\ rowIdx = 1
    /\ builder = DefaultBuilder
    /\ mOut = <<>>
    /\ parseResult = ParseRunning

MIdle ==
    /\ sheet = <<>>
    /\ parsePc = "off"
    /\ rowIdx = 1
    /\ builder = DefaultBuilder
    /\ mOut = <<>>
    /\ parseResult = ParseRunning

\* one iteration of `for row in sheet.rows()` after the header row  (mapping.rs 200-268)
ParseRow ==
    /\ parsePc = "row"
    /\ LET row == sheet[rowIdx]
           next == IF rowIdx = Len(sheet) THEN "last" ELSE "row"
       IN  IF ShouldStartNew(builder, row)
           THEN IF BuildOk(builder)
                THEN /\ mOut' = Append(mOut, Build(builder))
                     /\ builder' = Fill(DefaultBuilder, row)
                     /\ rowIdx' = rowIdx + 1
                     /\ parsePc' = next
                     /\ UNCHANGED parseResult
                ELSE /\ parsePc' = "done"
                     /\ parseResult' = ParsePanic
                     /\ UNCHANGED <<mOut, builder, rowIdx>>
           ELSE /\ builder' = Fill(builder, row)
                /\ rowIdx' = rowIdx + 1
                /\ parsePc' = next
                /\ UNCHANGED <<mOut, parseResult>>
    /\ UNCHANGED sheet
    /\ UNCHANGED <<shape, encPc, encoding>>
    /\ UNCHANGED <<template, regex, rePc, candidate, matched>>
    /\ UNCHANGED <<qvars, lvars, zvars, xvars>>

\* `if let Ok(metadata) = builder.build() { out.push(metadata); } Ok(out)`   (mapping.rs 270-275)
ParseLast ==
    /\ parsePc = "last"
    /\ LET final == IF BuildOk(builder) THEN Append(mOut, Build(builder)) ELSE mOut
       IN  /\ mOut' = final
           /\ parseResult' = ParseOk(final)
    /\ parsePc' = "done"
    /\ UNCHANGED <<sheet, rowIdx, builder>>
    /\ UNCHANGED <<shape, encPc, encoding>>
    /\ UNCHANGED <<template, regex, rePc, candidate, matched>>
    /\ UNCHANGED <<qvars, lvars, zvars, xvars>>

\* ------------------------------------------------------------------------
\* create_shapefile_name_regex  (mapping.rs 58-98) and Regex::is_match
\* ------------------------------------------------------------------------
\* A string is a sequence of characters; a file extension with its dot (".shp") is written as
\* one element ("shp").
Rep(c, n) == [i \in 1..n |-> c]

\* r"(YY|MM|PP|CCCCC|AA|mmmm)", the alternatives in their order
TokenPattern ==
    << Rep("Y", 2), Rep("M", 2), Rep("P", 2), Rep("C", 5), Rep("A", 2), Rep("m", 4) >>

\* the pieces a naming template of the catalog is written with: literal characters, tokens,
\* and a remark in full-width parentheses after a space
Lit(c) == [kind |-> "lit", text |-> <<c>>]
Tok(k) == [kind |-> "tok", text |-> TokenPattern[k]]
Note == [kind |-> "note", text |-> <<" ", "(", "n", ")">>]

PartKinds == { Lit("A"), Lit("3"), Lit("-") } \cup { Tok(k) : k \in 1..Len(TokenPattern) } \cup { Note }

RECURSIVE Flatten(_)
Flatten(parts) ==
    IF parts = <<>> THEN <<>> ELSE Head(parts).text \o Flatten(Tail(parts))

\* the template strings: up to MaxParts pieces, with or without a ".shp" / ".SHP" ending
Templates ==
    { [parts |-> ps, chars |-> Flatten(ps) \o e] :
        ps \in UNION { [1..n -> PartKinds] : n \in 0..MaxParts },
        e \in {<<>>, <<"shp">>, <<"SHP">>} }

\* the position of the first ")" at or after i; 0 if there is none
RECURSIVE FirstClose(_, _)
FirstClose(str, i) ==
    IF i > Len(str) THEN 0
    ELSE IF str[i] = ")" THEN i
    ELSE FirstClose(str, i + 1)

\* Regex::new(r"（[^）]+）").replace_all(template_string, "")   (mapping.rs 59-60), from
\* position i on; "(" and ")" stand for the full-width parentheses
RECURSIVE RemoveNotes(_, _)
RemoveNotes(str, i) ==
    IF i > Len(str) THEN <<>>
    ELSE LET j == FirstClose(str, i + 1)
         IN  IF str[i] = "(" /\ j > i + 1
             THEN RemoveNotes(str, j + 1)
             ELSE <<str[i]>> \o RemoveNotes(str, i + 1)

\* template.trim()   (mapping.rs 61)
RECURSIVE TrimStart(_)
TrimStart(str) ==
    IF str # <<>> /\ Head(str) = " " THEN TrimStart(Tail(str)) ELSE str

RECURSIVE TrimEnd(_)
TrimEnd(str) ==
    IF str # <<>> /\ str[Len(str)] = " " THEN TrimEnd(SubSeq(str, 1, Len(str) - 1)) ELSE str

Trim(str) == TrimEnd(TrimStart(str))

\* if template.to_lowercase().ends_with(".shp") { &template[..template.len() - 4] }   (mapping.rs 64-69)
BaseTemplate(str) ==
    IF str # <<>> /\ Lower(str[Len(str)]) = "shp" THEN SubSeq(str, 1, Len(str) - 1) ELSE str

\* the token pattern matches `tok` at position i of str
TokenAt(str, i, tok) ==
    /\ i + Len(tok) - 1 <= Len(str)
    /\ SubSeq(str, i, i + Len(tok) - 1) = tok

\* the first alternative of the token pattern that matches at position i; 0 if none does
FirstTokenAt(str, i) ==
    IF \E k \in 1..Len(TokenPattern) : TokenAt(str, i, TokenPattern[k])
    THEN CHOOSE k \in 1..Len(TokenPattern) :
            /\ TokenAt(str, i, TokenPattern[k])
            /\ \A h \in 1..(k - 1) : ~TokenAt(str, i, TokenPattern[h])
    ELSE 0

\* one element of the pattern: an escaped literal character, or one digit of a \d{n}
LitItem(c) == [kind |-> "lit", c |-> c]
DigitItem == [kind |-> "digit", c |-> ""]

\* (variant: a token becomes a single \d)
TokenWidthOne(token) == 1

\* format!(r"\d{{{}}}", token.len())   (mapping.rs 84-86)
TokenWidth(token) == Len(token)

\* for mat in re.find_iter(base_template) { escaped literal text; \d{token.len()} } and the
\* trailing literal text   (mapping.rs 77-94), from position i on
RECURSIVE ReplaceTokens(_, _)
ReplaceTokens(str, i) ==
    IF i > Len(str) THEN <<>>
    ELSE LET k == FirstTokenAt(str, i)
         IN  IF k # 0
             THEN Rep(DigitItem, TokenWidth(TokenPattern[k]))
                  \o ReplaceTokens(str, i + Len(TokenPattern[k]))
             ELSE <<LitItem(str[i])>> \o ReplaceTokens(str, i + 1)

\* create_shapefile_name_regex(template_string): the elements between "(?:^|/)" and the
\* sidecar alternation
CreateShapefileNameRegex(str) ==
    ReplaceTokens(BaseTemplate(Trim(RemoveNotes(str, 1))), 1)

Digits == {"1", "3"}

ItemMatches(item, c) == IF item.kind = "digit" THEN c \in Digits ELSE c = item.c

\* (variant: the pattern without its "(?:^|/)" prefix)
SegmentAnchorAny(name, k) == TRUE

\* "(?:^|/)" matches in front of position k
SegmentAnchor(name, k) == k = 1 \/ name[k - 1] = "/"

\* (?i:(?:\.shp|\.cpg|\.dbf|\.prj|\.qmd|\.shx))$ matches the last element of name
SidecarSuffix(name) ==
    name # <<>> /\ Lower(name[Len(name)]) \in {"shp", "cpg", "dbf", "prj", "qmd", "shx"}

\* Regex::is_match(name): an unanchored search for "(?:^|/)" items sidecar "$"
RegexIsMatch(items, name) ==
    /\ SidecarSuffix(name)
    /\ \E k \in 1..Len(name) :
         /\ SegmentAnchor(name, k)
         /\ k + Len(items) = Len(name)
         /\ \A j \in 1..Len(items) : ItemMatches(items[j], name[k + j - 1])

\* the file names offered to the matcher: in front an optional foreign character or a
\* directory; the template's pieces with "1" digits for the tokens, one token optionally with
\* one digit more or fewer (at = its index, by = +1 / -1); an extension; optionally one more
\* character behind it
RECURSIVE Body(_, _, _, _)
Body(parts, i, at, by) ==
    IF i > Len(parts) THEN <<>>
    ELSE (CASE parts[i].kind = "lit" -> parts[i].text
            [] parts[i].kind = "tok" -> Rep("1", Len(parts[i].text) + (IF i = at THEN by ELSE 0))
            [] OTHER -> <<>>)
         \o Body(parts, i + 1, at, by)

Candidates(parts) ==
    { [prefix |-> pre, at |-> w[1], by |-> w[2], ext |-> e, tail |-> t,
       name |-> pre \o Body(parts, 1, w[1], w[2]) \o <<e>> \o t] :
        pre \in {<<>>, <<"x">>, <<"d", "/">>},
        w \in {<<0, 0>>} \cup { <<i, d>> : i \in { h \in 1..Len(parts) : parts[h].kind = "tok" },
                                          d \in {-1, 1} },
        e \in {"shp", "DBF", "txt"},
        t \in {<<>>, <<"x">>} }

NoCandidate == [prefix |-> <<>>, at |-> 0, by |-> 0, ext |-> "", tail |-> <<>>, name |-> <<>>]

RInit ==
    /\ template \in Templates
    /\ regex = <<>>
    /\ rePc = "derive"
    /\ candidate = NoCandidate
    /\ matched = FALSE

RIdle ==
    /\ template = [parts |-> <<>>, chars |-> <<>>]
    /\ regex = <<>>
    /\ rePc = "off"
    /\ candidate = NoCandidate
    /\ matched = FALSE

\* ------------------------------------------------------------------------
\* Mapping resolution  (mapping::mapping_defs_for_dataset, called at load_queue.rs 31)
\* ------------------------------------------------------------------------
\* the identifiers with a multi-output override, and the fixed outputs of each
OverrideRules == [N03 |-> <<"n03", "n03_prefecture">>]

DatasetIds == {"N03", "A38", "P05"}
VariantNames == {"a", "b", "c"}

\* one output mapping: its destination identifier and where it came from
Mapping(identifier, origin) == [identifier |-> identifier, origin |-> origin]

\* catalog-driven resolution: one mapping per advertised variant, or exactly one mapping
\* with the dataset's own identifier when the catalog advertises none
ResolveCatalog(identifier, variants) ==
    IF variants = <<>>
    THEN <<Mapping(identifier, "dataset")>>
    ELSE [i \in 1..Len(variants) |-> Mapping(variants[i], "catalog")]

\* (variant: the rule fires whatever the catalog produced)
OverrideFiresAlways(identifier, catalog) == identifier \in DOMAIN OverrideRules

\* the rule fires when the identifier has one and the catalog produced exactly one mapping
OverrideFires(identifier, catalog) ==
    identifier \in DOMAIN OverrideRules /\ Len(catalog) = 1

\* the single mapping is replaced by the rule's fixed list
ApplyOverride(identifier, catalog) ==
    IF OverrideFires(identifier, catalog)
    THEN [i \in 1..Len(OverrideRules[identifier]) |-> Mapping(OverrideRules[identifier][i], "rule")]
    ELSE catalog

VInit ==
    /\ rIdentifier \in DatasetIds
    /\ rVariants \in UNION { [1..n -> VariantNames] : n \in 0..MaxVariants }
    /\ rPc = "catalog"
    /\ rCatalog = <<>>
    /\ rMappings = <<>>

VIdle ==
    /\ rIdentifier = ""
    /\ rVariants = <<>>
    /\ rPc = "off"
    /\ rCatalog = <<>>
    /\ rMappings = <<>>

\* ------------------------------------------------------------------------
\* parse_table  (table_read.rs 6-93)
\* ------------------------------------------------------------------------
\* a <th>/<td> element: its colspan and rowspan attributes
Cell(colspan, rowspan) == [colspan |-> colspan, rowspan |-> rowspan]

Cells == { Cell(c, r) : c \in 1..MaxSpan, r \in 1..MaxSpan }

\* the tables: up to MaxTrs rows of up to MaxTds cells
Tables ==
    LET trs == UNION { [1..n -> Cells] : n \in 0..MaxTds }
    IN  UNION { [1..n -> trs] : n \in 0..MaxTrs }

\* the element that is the k-th cell of the <tr> with index r (the first <tr> has index 0)
CellRef(r, k) == 10 * (r + 1) + k

\* while row.len() <= col_index { row.push(None) }
RECURSIVE PadTo(_, _)
PadTo(row, col) ==
    IF Len(row) <= col THEN PadTo(Append(row, 0), col) ELSE row

\* row[col_index] = Some(cell.clone()), after the padding
SetAt(row, col, cell) == [PadTo(row, col) EXCEPT ![col + 1] = cell]

\* for &(_, col_index, ref cell) in pending.iter().filter(|(r, _, _)| r == row_index) { .. }
\* (table_read.rs 24-31)
RECURSIVE InsertPending(_, _, _)
InsertPending(row, pend, r) ==
    IF pend = <<>> THEN row
    ELSE IF Head(pend)[1] = r
         THEN InsertPending(SetAt(row, Head(pend)[2], Head(pend)[3]), Tail(pend), r)
         ELSE InsertPending(row, Tail(pend), r)

\* pending.retain(|&(r, _, _)| r > row_index)
Retain(pend, r) == SelectSeq(pend, LAMBDA e : e[1] > r)

\* while row.get(col_index).is_some() { col_index += 1 }: row.get is Some for every index
\* inside the row, whether the entry is a cell or None   (table_read.rs 39-41)
RECURSIVE SkipFilled(_, _)
SkipFilled(row, col) ==
    IF col < Len(row) THEN SkipFilled(row, col + 1) ELSE col

\* for offset in 0..colspan { row[col_index + offset] = Some(cell.clone()) }   (table_read.rs 63-68)
RECURSIVE PlaceCell(_, _, _, _)
PlaceCell(row, col, cell, colspan) ==
    IF colspan = 0 THEN row
    ELSE PlaceCell(SetAt(row, col, cell), col + 1, cell, colspan - 1)

\* if rowspan > 1 { for r in 1..rowspan { pending.push((row_index + r, col_index, cell)) } }
\* (table_read.rs 70-74)
Scheduled(r, col, cell, rowspan) ==
    [i \in 1..(rowspan - 1) |-> <<r + i, col, cell>>]

\* ncols = grid.iter().map(|r| r.len()).max().unwrap_or(0)
RECURSIVE MaxLen(_)
MaxLen(rows) ==
    IF rows = <<>> THEN 0 ELSE Max2(Len(Head(rows)), MaxLen(Tail(rows)))

\* new_row.resize(ncols, None)
Resize(row, n) == [j \in 1..n |-> IF j <= Len(row) THEN row[j] ELSE 0]

NoArray == [nrows |-> 0, ncols |-> 0, rows |-> <<>>]

TInit ==
    /\ table \in Tables
    /\ tPc = "row"
    /\ row_index = 0
    /\ cell_index = 1
    /\ grid = <<>>
    /\ pending = <<>>
    /\ col_index = 0
    /\ array = NoArray

TIdle ==
    /\ table = <<>>
    /\ tPc = "off"
    /\ row_index = 0
    /\ cell_index = 1
    /\ grid = <<>>
    /\ pending = <<>>
    /\ col_index = 0
    /\ array = NoArray

TOthers == UNCHANGED <<rvars, dvars, gvars>> /\ UNCHANGED <<qvars, lvars, zvars, ovars>>

\* the top of one iteration of `for (row_index, tr) in ..` (table_read.rs 16-36), or the end
\* of the loop
TRow ==
    /\ tPc = "row"
    /\ IF row_index < Len(table)
       THEN /\ grid' = Append(grid, InsertPending(<<>>, pending, row_index))
            /\ pending' = Retain(pending, row_index)
            /\ col_index' = 0
            /\ cell_index' = 1
            /\ tPc' = "cell"
       ELSE /\ tPc' = "finish"
            /\ UNCHANGED <<grid, pending, col_index, cell_index>>
    /\ UNCHANGED <<table, row_index, array>>
    /\ TOthers

\* one iteration of `for cell_node in tr.select(&cell_selector)` (table_read.rs 37-76), or the
\* end of the <tr>
TCell ==
    /\ tPc = "cell"
    /\ LET tr == table[row_index + 1]
       IN  IF cell_index <= Len(tr)
           THEN LET row == grid[row_index + 1]
                    col == SkipFilled(row, col_index)
                    cell == CellRef(row_index, cell_index)
                IN  /\ grid' = [grid EXCEPT ![row_index + 1] =
                                    PlaceCell(row, col, cell, tr[cell_index].colspan)]
                    /\ pending' = pending \o Scheduled(row_index, col, cell, tr[cell_index].rowspan)
                    /\ col_index' = col + tr[cell_index].colspan
                    /\ cell_index' = cell_index + 1
                    /\ UNCHANGED <<tPc, row_index>>
           ELSE /\ row_index' = row_index + 1
                /\ tPc' = "row"
                /\ UNCHANGED <<grid, pending, col_index, cell_index>>
    /\ UNCHANGED <<table, array>>
    /\ TOthers

\* the final dimensions, the padding and Array2::from_shape_vec   (table_read.rs 79-92)
TFinish ==
    /\ tPc = "finish"
    /\ array' = [nrows |-> Len(grid),
                 ncols |-> MaxLen(grid),
                 rows |-> [i \in 1..Len(grid) |-> Resize(grid[i], MaxLen(grid))]]
    /\ tPc' = "done"
    /\ UNCHANGED <<table, row_index, cell_index, grid, pending, col_index>>
    /\ TOthers

\* ------------------------------------------------------------------------
\* download_to_tmp  (downloader.rs 33-107)
\* ------------------------------------------------------------------------
Versions == 1..MaxVersions

\* the file at file_path: absent, or `chunks` chunks of the body of `version`
NoFile == [version |-> 0, chunks |-> 0]
FileOf(version, chunks) == [version |-> version, chunks |-> chunks]

\* the whole body has been written
Complete(f) == f.version # 0 /\ f.chunks = MaxChunks

\* the file at meta_path: absent, or the validators (ETag / Last-Modified) of a version;
\* tag 0: the server sent neither header
NoMeta == [present |-> FALSE, tag |-> 0]
MetaOf(tag) == [present |-> TRUE, tag |-> tag]

\* the server answers a conditional request: 304 when the validators sent are those of the
\* version it holds   (downloader.rs 48-60)
NotModified(meta, version) == meta.present /\ meta.tag # 0 /\ meta.tag = version

DInit ==
    /\ srvVersion \in Versions
    /\ file_path = NoFile
    /\ meta_path = NoMeta
    /\ dPc = "idle"
    /\ response = [version |-> 0, tag |-> 0]
    /\ dCalls = 0
    /\ dReturned = <<>>

DIdle ==
    /\ srvVersion = 0
    /\ file_path = NoFile
    /\ meta_path = NoMeta
    /\ dPc = "off"
    /\ response = [version |-> 0, tag |-> 0]
    /\ dCalls = 0
    /\ dReturned = <<>>

\* ------------------------------------------------------------------------
\* DownloadQueue (scraper/download_queue.rs)
\* ------------------------------------------------------------------------
\* DL_QUEUE_SIZE is 10 in the source; the pool is modelled with MaxDlWorkers workers
DL_QUEUE_SIZE == MaxDlWorkers

DqWorkers == 1..DL_QUEUE_SIZE

NoItem == [id |-> 0, bytes |-> 0]

DataItem(i, b) == [id |-> i, bytes |-> b]

PBStatusUpdateMsg(a, f) == [added |-> a, finished |-> f]

\* a task that has ended and dropped what it owned
DqEnded(pc) == pc \in {"done", "panicked", "aborted"}

\* every Receiver<DataItem> is dropped: the channel is closed for the senders
DqReceiversGone == \A w \in DqWorkers : DqEnded(dqWpc[w])

\* every Sender<PBStatusUpdateMsg> is dropped: the queue's own and each worker's clone
DqPbSendersGone == ~dqPbSender /\ \A w \in DqWorkers : DqEnded(dqWpc[w])

\* the error of download_to_tmp is ignored and the item reported all the same
DownloadUnwrapIgnored(res) == "sending"

\* `downloader::download_to_tmp(tmp.clone(), url).await.unwrap()`: the task panics on Err
DownloadUnwrap(res) == IF res = "Err" THEN "panicked" ELSE "sending"

GInit ==
    /\ dqCaller = "open"
    /\ dqSender = TRUE
    /\ dqPbSender = TRUE
    /\ dqChan = <<>>
    /\ dqPbChan = <<>>
    /\ dqWpc = [w \in DqWorkers |-> "recv"]
    /\ dqItem = [w \in DqWorkers |-> NoItem]
    /\ dqPpc = "recv"
    /\ dqLength = 0
    /\ dqPosition = 0
    /\ dqPushed = <<>>
    /\ dqFailed = {}
    /\ dqReported = {}
    /\ dqTaken = <<>>

GIdle ==
    /\ dqCaller = "off"
    /\ dqSender = FALSE
    /\ dqPbSender = FALSE
    /\ dqChan = <<>>
    /\ dqPbChan = <<>>
    /\ dqWpc = [w \in DqWorkers |-> "off"]
    /\ dqItem = [w \in DqWorkers |-> NoItem]
    /\ dqPpc = "off"
    /\ dqLength = 0
    /\ dqPosition = 0
    /\ dqPushed = <<>>
    /\ dqFailed = {}
    /\ dqReported = {}
    /\ dqTaken = <<>>

GOthers == UNCHANGED <<rvars, dvars, tvars>> /\ UNCHANGED <<qvars, lvars, zvars, ovars>>

\* push (download_queue.rs 73-88): the `added` message first, then the item; the second send
\* fails once every receiver is dropped
DqPush ==
    /\ dqCaller = "open"
    /\ Len(dqPushed) < MaxItems
    /\ \E b \in 1..MaxItemBytes :
        /\ dqPbChan' = Append(dqPbChan, PBStatusUpdateMsg(b, 0))
        /\ IF DqReceiversGone
             THEN /\ dqPushed' = Append(dqPushed, "Err")
                  /\ UNCHANGED dqChan
             ELSE /\ dqPushed' = Append(dqPushed, "Ok")
                  /\ dqChan' = Append(dqChan, DataItem(Len(dqPushed) + 1, b))
    /\ UNCHANGED <<dqCaller, dqSender, dqPbSender, dqWpc, dqItem, dqPpc, dqLength, dqPosition,
                   dqFailed, dqReported, dqTaken>>
    /\ GOthers

\* `while let Ok(item) = receiver.recv().await` with an item in the channel (35-37)
DqRecv(w) ==
    /\ dqWpc[w] = "recv"
    /\ dqChan # <<>>
    /\ dqItem' = [dqItem EXCEPT ![w] = Head(dqChan)]
    /\ dqChan' = Tail(dqChan)
    /\ dqWpc' = [dqWpc EXCEPT ![w] = "downloading"]
    /\ dqTaken' = Append(dqTaken, <<w, Head(dqChan).id>>)
    /\ UNCHANGED <<dqCaller, dqSender, dqPbSender, dqPbChan, dqPpc, dqLength, dqPosition,
                   dqPushed, dqFailed, dqReported>>
    /\ GOthers

\* recv() returns Err: the channel is empty and its sender dropped; the loop ends (35, 46)
DqRecvClosed(w) ==
    /\ dqWpc[w] = "recv"
    /\ dqChan = <<>>
    /\ ~dqSender
    /\ dqWpc' = [dqWpc EXCEPT ![w] = "done"]
    /\ UNCHANGED <<dqCaller, dqSender, dqPbSender, dqChan, dqPbChan, dqItem, dqPpc, dqLength,
                   dqPosition, dqPushed, dqFailed, dqReported, dqTaken>>
    /\ GOthers

\* download_to_tmp returns, and its result is unwrapped (38)
DqDownload(w) ==
    /\ dqWpc[w] = "downloading"
    /\ \E res \in {"Ok", "Err"} :
        /\ dqWpc' = [dqWpc EXCEPT ![w] = DownloadUnwrap(res)]
        /\ dqFailed' = IF res = "Err" THEN dqFailed \union {dqItem[w].id} ELSE dqFailed
    /\ UNCHANGED <<dqCaller, dqSender, dqPbSender, dqChan, dqPbChan, dqItem, dqPpc, dqLength,
                   dqPosition, dqPushed, dqReported, dqTaken>>
    /\ GOthers

\* the `finished` message of the item (39-45); the progress task holds the receiver for as
\* long as a worker holds a sender, so the send succeeds
DqSendFinished(w) ==
    /\ dqWpc[w] = "sending"
    /\ dqPbChan' = Append(dqPbChan, PBStatusUpdateMsg(0, dqItem[w].bytes))
    /\ dqReported' = dqReported \union {dqItem[w].id}
    /\ dqWpc' = [dqWpc EXCEPT ![w] = "recv"]
    /\ UNCHANGED <<dqCaller, dqSender, dqPbSender, dqChan, dqItem, dqPpc, dqLength,
                   dqPosition, dqPushed, dqFailed, dqTaken>>
    /\ GOthers

\* one iteration of the progress task's loop (58-63)
DqProgressRecv ==
    /\ dqPpc = "recv"
    /\ dqPbChan # <<>>
    /\ dqLength' = dqLength + Head(dqPbChan).added
    /\ dqPosition' = dqPosition + Head(dqPbChan).finished
    /\ dqPbChan' = Tail(dqPbChan)
    /\ UNCHANGED <<dqCaller, dqSender, dqPbSender, dqChan, dqWpc, dqItem, dqPpc, dqPushed,
                   dqFailed, dqReported, dqTaken>>
    /\ GOthers

\* the progress task's recv() returns Err; finish_with_message (58, 64)
DqProgressFinish ==
    /\ dqPpc = "recv"
    /\ dqPbChan = <<>>
    /\ DqPbSendersGone
    /\ dqPpc' = "done"
    /\ UNCHANGED <<dqCaller, dqSender, dqPbSender, dqChan, dqPbChan, dqWpc, dqItem, dqLength,
                   dqPosition, dqPushed, dqFailed, dqReported, dqTaken>>
    /\ GOthers

\* close up to the await of join_all (90-103): the three fields are taken
DqClose ==
    /\ dqCaller = "open"
    /\ dqCaller' = "joining"
    /\ dqSender' = FALSE
    /\ dqPbSender' = FALSE
    /\ UNCHANGED <<dqChan, dqPbChan, dqWpc, dqItem, dqPpc, dqLength, dqPosition, dqPushed,
                   dqFailed, dqReported, dqTaken>>
    /\ GOthers

\* join_all has joined every task without a JoinError; close returns Ok(()) (103-104)
DqJoinOk ==
    /\ dqCaller = "joining"
    /\ \A w \in DqWorkers : dqWpc[w] = "done"
    /\ dqPpc = "done"
    /\ dqCaller' = "Ok"
    /\ UNCHANGED <<dqSender, dqPbSender, dqChan, dqPbChan, dqWpc, dqItem, dqPpc, dqLength,
                   dqPosition, dqPushed, dqFailed, dqReported, dqTaken>>
    /\ GOthers

\* join_all meets the JoinError of a panicked task (103): it panics in the caller, and the
\* JoinSet it drops aborts the tasks still running
DqJoinPanic ==
    /\ dqCaller = "joining"
    /\ \E w \in DqWorkers : dqWpc[w] = "panicked"
    /\ dqCaller' = "panicked"
    /\ dqWpc' = [w \in DqWorkers |-> IF DqEnded(dqWpc[w]) THEN dqWpc[w] ELSE "aborted"]
    /\ dqPpc' = IF dqPpc = "done" THEN "done" ELSE "aborted"
    /\ UNCHANGED <<dqSender, dqPbSender, dqChan, dqPbChan, dqItem, dqLength, dqPosition,
                   dqPushed, dqFailed, dqReported, dqTaken>>
    /\ GOthers

XIdle == VIdle /\ DIdle /\ TIdle /\ GIdle

DOthers == UNCHANGED <<rvars, tvars, gvars>> /\ UNCHANGED <<qvars, lvars, zvars, ovars>>

\* the resource changes at the server (to any other version, an earlier one included)
ServerUpdate ==
    /\ dPc \in {"idle", "create", "body", "flush", "meta"}
    /\ \E v \in Versions \ {srvVersion} : srvVersion' = v
    /\ UNCHANGED <<file_path, meta_path, dPc, response, dCalls, dReturned>>
    /\ DOthers

\* read the metadata, send the request with the conditional headers, look at the status
\* (downloader.rs 34-71).  sent: request.send() succeeded; status 304, an error status, or 200
\* with or without validators in its headers
DRequest ==
    /\ dPc = "idle"
    /\ dCalls < MaxDownloads
    /\ dCalls' = dCalls + 1
    /\ \E sent \in BOOLEAN, okStatus \in BOOLEAN, validators \in BOOLEAN :
         IF ~sent
         THEN UNCHANGED <<dPc, response, dReturned>>
         ELSE IF NotModified(meta_path, srvVersion)
         THEN /\ dReturned' = IF file_path = NoFile THEN dReturned ELSE Append(dReturned, file_path)
              /\ UNCHANGED <<dPc, response>>
         ELSE IF ~okStatus
         THEN UNCHANGED <<dPc, response, dReturned>>
         ELSE /\ response' = [version |-> srvVersion, tag |-> IF validators THEN srvVersion ELSE 0]
              /\ dPc' = "create"
              /\ UNCHANGED dReturned
    /\ UNCHANGED <<srvVersion, file_path, meta_path>>
    /\ DOthers

\* let mut file = File::create(&file_path).await?   (downloader.rs 74): the file is truncated
DCreate ==
    /\ dPc = "create"
    /\ \E ok \in BOOLEAN :
         IF ok
         THEN /\ file_path' = FileOf(response.version, 0)
              /\ dPc' = "body"
         ELSE dPc' = "idle" /\ UNCHANGED file_path
    /\ UNCHANGED <<srvVersion, meta_path, response, dCalls, dReturned>>
    /\ DOthers

\* while let Some(chunk) = stream.next().await { let chunk = chunk?; file.write_all(&chunk).await?; }
\* (downloader.rs 94-98)
DChunk ==
    /\ dPc = "body"
    /\ IF file_path.chunks < MaxChunks
       THEN \E ok \in BOOLEAN :
              IF ok
              THEN file_path' = FileOf(file_path.version, file_path.chunks + 1) /\ UNCHANGED dPc
              ELSE dPc' = "idle" /\ UNCHANGED file_path
       ELSE dPc' = "flush" /\ UNCHANGED file_path
    /\ UNCHANGED <<srvVersion, meta_path, response, dCalls, dReturned>>
    /\ DOthers

\* file.flush().await?   (downloader.rs 99)
DFlush ==
    /\ dPc = "flush"
    /\ \E ok \in BOOLEAN : dPc' = IF ok THEN "meta" ELSE "idle"
    /\ UNCHANGED <<srvVersion, file_path, meta_path, response, dCalls, dReturned>>
    /\ DOthers

\* fs::write(&meta_path, meta_json).await?; Ok(DownloadedFile { path: file_path })
\* (downloader.rs 102-106)
DMeta ==
    /\ dPc = "meta"
    /\ \E ok \in BOOLEAN :
         IF ok
         THEN /\ meta_path' = MetaOf(response.tag)
              /\ dReturned' = Append(dReturned, file_path)
         ELSE UNCHANGED <<meta_path, dReturned>>
    /\ dPc' = "idle"
    /\ UNCHANGED <<srvVersion, file_path, response, dCalls>>
    /\ DOthers

\* the process is interrupted inside download_to_tmp; what is on disk stays as it is
DInterrupt ==
    /\ dPc \in {"create", "body", "flush", "meta"}
    /\ dPc' = "idle"
    /\ UNCHANGED <<srvVersion, file_path, meta_path, response, dCalls, dReturned>>
    /\ DOthers

ResolveFromCatalog ==
    /\ rPc = "catalog"
    /\ rCatalog' = ResolveCatalog(rIdentifier, rVariants)
    /\ rPc' = "override"
    /\ UNCHANGED <<rIdentifier, rVariants, rMappings>>
    /\ UNCHANGED <<dvars, tvars, gvars>>
    /\ UNCHANGED <<qvars, lvars, zvars, ovars>>

ResolveOverride ==
    /\ rPc = "override"
    /\ rMappings' = ApplyOverride(rIdentifier, rCatalog)
    /\ rPc' = "done"
    /\ UNCHANGED <<rIdentifier, rVariants, rCatalog>>
    /\ UNCHANGED <<dvars, tvars, gvars>>
    /\ UNCHANGED <<qvars, lvars, zvars, ovars>>

PIdle == EIdle /\ MIdle /\ RIdle /\ XIdle

\* builder.build(): shapefile_name_regex is computed from the template   (mapping.rs 32, 109-112)
DeriveRegex ==
    /\ rePc = "derive"
    /\ regex' = CreateShapefileNameRegex(template.chars)
    /\ rePc' = "match"
    /\ UNCHANGED <<template, candidate, matched>>
    /\ UNCHANGED <<shape, encPc, encoding>>
    /\ UNCHANGED <<sheet, parsePc, rowIdx, builder, mOut, parseResult>>
    /\ UNCHANGED <<qvars, lvars, zvars, xvars>>

\* matchers.iter().any(|r| r.is_match(&file_name)) for one file name   (zip_traversal.rs 37)
MatchName ==
    /\ rePc = "match"
    /\ \E c \in Candidates(template.parts) :
         /\ candidate' = c
         /\ matched' = RegexIsMatch(regex, c.name)
    /\ rePc' = "done"
    /\ UNCHANGED <<template, regex>>
    /\ UNCHANGED <<shape, encPc, encoding>>
    /\ UNCHANGED <<sheet, parsePc, rowIdx, builder, mOut, parseResult>>
    /\ UNCHANGED <<qvars, lvars, zvars, xvars>>

\* ------------------------------------------------------------------------
\* Specifications
\* ------------------------------------------------------------------------
\* the parts of the state a specification does not use stay at these values
QIdle ==
    /\ mode = "off"
    /\ cpus = 1
    /\ output = "File"
    /\ nDatasets = 0
    /\ callerPc = "off"
    /\ pushIdx = 0
    /\ sender = FALSE
    /\ pb_status_sender = FALSE
    /\ set = FALSE
    /\ queue = <<>>
    /\ pbQueue = <<>>
    /\ workers = {}
    /\ progressSpawned = FALSE
    /\ wpc = [w \in WorkerIds |-> "unspawned"]
    /\ witem = [w \in WorkerIds |-> 0]
    /\ wmaps = [w \in WorkerIds |-> 0]
    /\ wmi = [w \in WorkerIds |-> 0]
    /\ wres = [w \in WorkerIds |-> "none"]
    /\ ppc = "unspawned"
    /\ length = 0
    /\ position = 0
    /\ callLog = <<>>
    /\ loadAllResult = "none"
    /\ loads = [t \in Tickets |-> NoLoad]
    /\ errLog = {}
    /\ finishedSent = [t \in Tickets |-> 0]
    /\ newRes = "none"
    /\ adminiRes = "none"

LIdle ==
    /\ lOutput = "File"
    /\ skip_if_exists = FALSE
    /\ nZips = 0
    /\ field_mappings = <<>>
    /\ lpc = "off"
    /\ mappings = 0
    /\ lm = 0
    /\ lz = 0
    /\ shapefiles = <<>>
    /\ already_exists = FALSE
    /\ vrt_path = NoVrt
    /\ dest = {}
    /\ dest0 = {}
    /\ metaStore = {}
    /\ trace = <<>>
    /\ upserts = <<>>
    /\ queries = <<>>
    /\ lResult = "none"

\* Spec: Loader::load_all and the LoadQueue it drives
Init == QInit /\ mode = "load_all" /\ LIdle /\ ZIdle /\ PIdle

Next ==
    \/ New
    \/ LoadAllPush
    \/ PushSend
    \/ LoadAllClose
    \/ CloseJoin
    \/ LoadAllAdmini
    \/ \E w \in WorkerIds : WorkerRecv(w)
    \/ \E w \in WorkerIds : WorkerSendStart(w)
    \/ \E w \in WorkerIds : LoadResolve(w)
    \/ \E w \in WorkerIds : LoadMapping(w)
    \/ \E w \in WorkerIds : WorkerLoaded(w)
    \/ ProgressRecv

Spec == Init /\ [][Next]_vars

\* the steps of one dataset worker task
Worker(w) ==
    \/ WorkerRecv(w)
    \/ WorkerSendStart(w)
    \/ LoadResolve(w)
    \/ LoadMapping(w)
    \/ WorkerLoaded(w)

\* FairSpec: the tokio runtime keeps polling every task that can make a step: each worker,
\* the progress task, and the caller awaiting join_all
FairSpec ==
    /\ Spec
    /\ \A w \in WorkerIds : WF_vars(Worker(w))
    /\ WF_vars(ProgressRecv)
    /\ WF_vars(CloseJoin)

\* SpecApi: a LoadQueue driven by any sequence of push() and close() calls
InitApi == QInit /\ mode = "api" /\ LIdle /\ ZIdle /\ PIdle

NextApi ==
    \/ New
    \/ ApiPush
    \/ PushSend
    \/ ApiClose
    \/ CloseJoin
    \/ \E w \in WorkerIds : WorkerRecv(w)
    \/ \E w \in WorkerIds : WorkerSendStart(w)
    \/ \E w \in WorkerIds : LoadResolve(w)
    \/ \E w \in WorkerIds : LoadMapping(w)
    \/ \E w \in WorkerIds : WorkerLoaded(w)
    \/ ProgressRecv

SpecApi == InitApi /\ [][NextApi]_vars

\* SpecLoad: one call of load()
InitLoad == LInit /\ QIdle /\ ZIdle /\ PIdle

NextLoad ==
    \/ LStart
    \/ LResolve
    \/ LExtract
    \/ LCheck
    \/ LVrt
    \/ LConvert
    \/ LMeta

SpecLoad == InitLoad /\ [][NextLoad]_vars

\* SpecZip: one call of matching_shapefiles_in_zip
InitZip == ZInit /\ QIdle /\ LIdle /\ PIdle

NextZip ==
    \/ ZStart
    \/ ZipEntry
    \/ ZipReturn
    \/ ZPassEnd

SpecZip == InitZip /\ [][NextZip]_vars

\* SpecRerun: matching_shapefiles_in_zip called repeatedly on an archive with sibling ZIPs
InitRerun ==
    /\ zArchive \in SiblingArchives
    /\ zMapping \in Mappings
    /\ zpc = "start"
    /\ zStack = <<>>
    /\ zOut = <<>>
    /\ scratch = {}
    /\ copied = {}
    /\ zCalls = <<>>
    /\ zResult = Running
    /\ zRuns = <<>>
    /\ QIdle /\ LIdle /\ PIdle

NextRerun ==
    \/ ZStart
    \/ ZipEntry
    \/ ZipReturn
    \/ ZPassEnd
    \/ ZRerun

SpecRerun == InitRerun /\ [][NextRerun]_vars

\* SpecRegex: a matcher is derived from a template and applied to a file name
InitRegex == RInit /\ EIdle /\ MIdle /\ XIdle /\ QIdle /\ LIdle /\ ZIdle

NextRegex ==
    \/ DeriveRegex
    \/ MatchName

SpecRegex == InitRegex /\ [][NextRegex]_vars

\* SpecResolve: mapping resolution for one dataset
InitResolve == VInit /\ DIdle /\ TIdle /\ GIdle /\ EIdle /\ MIdle /\ RIdle /\ QIdle /\ LIdle /\ ZIdle

NextResolve ==
    \/ ResolveFromCatalog
    \/ ResolveOverride

SpecResolve == InitResolve /\ [][NextResolve]_vars

\* SpecDownload: download_to_tmp called again and again for one URL, with interruptions
InitDownload == DInit /\ VIdle /\ TIdle /\ GIdle /\ EIdle /\ MIdle /\ RIdle /\ QIdle /\ LIdle /\ ZIdle

NextDownload ==
    \/ ServerUpdate
    \/ DRequest
    \/ DCreate
    \/ DChunk
    \/ DFlush
    \/ DMeta
    \/ DInterrupt

SpecDownload == InitDownload /\ [][NextDownload]_vars

\* SpecTable: one call of parse_table
InitTable == TInit /\ VIdle /\ DIdle /\ GIdle /\ EIdle /\ MIdle /\ RIdle /\ QIdle /\ LIdle /\ ZIdle

NextTable ==
    \/ TRow
    \/ TCell
    \/ TFinish

SpecTable == InitTable /\ [][NextTable]_vars

\* SpecDownloadQueue: one DownloadQueue from `new` to the return of close
InitDownloadQueue ==
    GInit /\ VIdle /\ DIdle /\ TIdle /\ EIdle /\ MIdle /\ RIdle /\ QIdle /\ LIdle /\ ZIdle

NextDownloadQueue ==
    \/ DqPush
    \/ \E w \in DqWorkers : DqRecv(w)
    \/ \E w \in DqWorkers : DqRecvClosed(w)
    \/ \E w \in DqWorkers : DqDownload(w)
    \/ \E w \in DqWorkers : DqSendFinished(w)
    \/ DqProgressRecv
    \/ DqProgressFinish
    \/ DqClose
    \/ DqJoinOk
    \/ DqJoinPanic

SpecDownloadQueue == InitDownloadQueue /\ [][NextDownloadQueue]_vars

\* SpecEnc: one call of detect_encoding
InitEnc == EInit /\ MIdle /\ RIdle /\ XIdle /\ QIdle /\ LIdle /\ ZIdle

NextEnc ==
    \/ DetectEncodingOgrinfo
    \/ DetectEncodingFallback

SpecEnc == InitEnc /\ [][NextEnc]_vars

\* SpecParse: one call of parse_mapping_file on the downloaded sheet
InitParse == MInit /\ EIdle /\ RIdle /\ XIdle /\ QIdle /\ LIdle /\ ZIdle

NextParse ==
    \/ ParseRow
    \/ ParseLast

SpecParse == InitParse /\ [][NextParse]_vars

\* the blocking task running extract_zip is always scheduled until it returns
FairSpecZip == SpecZip /\ WF_vars(NextZip)

\* ------------------------------------------------------------------------
\* Properties of LoadQueue and Loader::load_all
\* ------------------------------------------------------------------------
Range(seq) == { seq[k] : k \in 1..Len(seq) }

CloseReturnedOk == \E k \in 1..Len(callLog) : callLog[k] = CallRec("close", "Ok")

\* C1: when load() returns an error for a dataset, the worker that took it prints the error,
\* still sends the finished message for that dataset and goes back to receive the next one (a
\* worker leaves its loop only when the channel is closed and empty); no such error makes
\* close() or load_all() fail: every close() of load_all returns Ok, and load_all returns an
\* error only when LoadQueue::new or load_admini_boundary failed.
C1_LoadErrorIsolated ==
    /\ \A t \in Tickets :
         "Err" \in Range(loads[t].results) =>
            \/ \E w \in workers : wpc[w] = "loaded" /\ witem[w] = t
            \/ t \in errLog /\ finishedSent[t] = 1
    /\ \A w \in workers : wpc[w] = "done" => (~sender /\ queue = <<>>)
    /\ \A k \in 1..Len(callLog) : callLog[k].op = "close" => callLog[k].res = "Ok"
    /\ loadAllResult = "Err" => (newRes = "Err" \/ adminiRes = "Err")

\* a worker got an error from load() for one dataset, then received a later dataset, and
\* load_all returned Ok
C1_Witness ==
    /\ loadAllResult = "Ok"
    /\ \E t1 \in Tickets, t2 \in Tickets, w \in workers :
         /\ t1 < t2
         /\ loads[t1].results = <<"Err">>
         /\ loads[t1].by = <<w>>
         /\ loads[t2].by = <<w>>
         /\ t1 \in errLog

\* C2: when close() has returned Ok, load() has run to completion (Ok or Err) exactly for every
\* dataset pushed before it, every worker and the progress task have finished, and nothing is
\* left in the queue.
C2_CloseDrainsQueue ==
    CloseReturnedOk =>
        /\ \A t \in 1..pushIdx : Len(loads[t].results) = 1
        /\ \A t \in Tickets \ (1..pushIdx) : loads[t] = NoLoad
        /\ \A w \in workers : wpc[w] = "done"
        /\ ppc = "done"
        /\ queue = <<>>

\* close() returned Ok after two datasets were pushed, one of which failed to load
C2_Witness ==
    /\ CloseReturnedOk
    /\ pushIdx = 2
    /\ loads[1].results = <<"Err">>
    /\ loads[2].results = <<"Ok">>

ClosedOnce == \E k \in 1..Len(callLog) : callLog[k].op = "close"

CallerStep == callLog' # callLog \/ callerPc' # callerPc

\* C3: once a close() call has returned, every later close() or push() call returns an error
\* at once, and changes neither the work queue nor the progress channel.
C3_ClosedQueueRejects ==
    [][ (ClosedOnce /\ CallerStep) =>
            /\ Len(callLog') = Len(callLog) + 1
            /\ SubSeq(callLog', 1, Len(callLog)) = callLog
            /\ callLog'[Len(callLog')].res = "Err"
            /\ queue' = queue
            /\ pbQueue' = pbQueue
            /\ pushIdx' = pushIdx ]_vars

\* a close() that returned Ok was followed by a rejected push() and a rejected close()
C3_Witness ==
    /\ Len(callLog) = 3
    /\ callLog[1] = CallRec("close", "Ok")
    /\ callLog[2] = CallRec("push", "Err")
    /\ callLog[3] = CallRec("close", "Err")

\* C4: every pushed dataset is received by at most one worker (exactly one once close() has
\* returned), load() runs at most once for it (exactly once after close()), its mappings are
\* processed in resolution order 1, 2, .. by the worker that received it, and no two workers
\* hold the same dataset at the same time.
C4_OneWorkerPerDataset ==
    /\ \A t \in Tickets :
         /\ Len(loads[t].by) <= 1
         /\ Len(loads[t].results) <= 1
         /\ \A k \in 1..Len(loads[t].maps) :
              /\ loads[t].by # <<>>
              /\ loads[t].maps[k] = <<loads[t].by[1], k>>
    /\ \A w1 \in workers, w2 \in workers :
         (w1 # w2 /\ witem[w1] # 0) => witem[w1] # witem[w2]
    /\ CloseReturnedOk =>
         \A t \in 1..pushIdx : Len(loads[t].by) = 1 /\ Len(loads[t].results) = 1

\* two workers each loaded one dataset, one of them with two mappings in order
C4_Witness ==
    \E t1 \in Tickets, t2 \in Tickets :
        /\ t1 # t2
        /\ loads[t1].by # <<>> /\ loads[t2].by # <<>>
        /\ loads[t1].by # loads[t2].by
        /\ Len(loads[t1].maps) = 2
        /\ loads[t1].results = <<"Ok">>
        /\ loads[t2].results # <<>>

\* ------------------------------------------------------------------------
\* load(): skip-if-exists, ordering of the steps, descriptor before conversion
\* ------------------------------------------------------------------------
\* the destination held every mapping's output when load() was called
AllOutputsExist == mappings > 0 /\ (1..mappings) \subseteq dest0

Events(ev) == { k \in 1..Len(trace) : trace[k].ev = ev }

MetadataEvent == IF lOutput = "Postgres" THEN "upsert" ELSE "metafile"

C6_CheckBeforeWork ==
    skip_if_exists =>
        /\ \A k \in Events("extract") \cup Events("convert") :
             \E j \in 1..(k - 1) : trace[j].ev = "check" /\ trace[j].m = trace[k].m
        /\ \A j \in Events("check") :
             trace[j].ex => \A k \in Events("extract") : trace[k].m # trace[j].m

\* C7: every conversion is given a descriptor that create_vrt wrote successfully for the same
\* mapping earlier in the same iteration, with at least one Shapefile and at least one field;
\* whenever load() calls create_vrt, the call fails if the Shapefile list is empty or if
\* pruning leaves no field.
C7_ConvertOnlyAfterVrt ==
    /\ \A k \in Events("convert") :
         /\ trace[k].vrt.ok
         /\ Len(trace[k].vrt.shapes) >= 1
         /\ Len(trace[k].vrt.fields) >= 1
         /\ \E j \in 1..(k - 1) :
              /\ trace[j].ev = "vrt"
              /\ trace[j].m = trace[k].m
              /\ trace[j].vrt = trace[k].vrt
              /\ \A i \in (j + 1)..(k - 1) : trace[i].ev # "vrt"
    /\ lpc = "vrt" =>
         \A attrsOk \in BOOLEAN, attributes \in SUBSET Attrs, ioOk \in BOOLEAN :
            (shapefiles = <<>> \/ PruneFields(field_mappings, attributes) = <<>>) =>
                ~CreateVrt(shapefiles, field_mappings, attrsOk, attributes, ioOk).ok

\* a conversion ran on a descriptor that unions two Shapefiles, and load() returned Ok
C7_Witness ==
    /\ lResult = "Ok"
    /\ \E k \in Events("convert") :
         Len(trace[k].vrt.shapes) = 2 /\ Len(trace[k].vrt.fields) >= 1

\* ------------------------------------------------------------------------
\* matching_shapefiles_in_zip / extract_zip: passes, deny-list, completeness
\* ------------------------------------------------------------------------
\* C8 as stated: the first pass always uses the mapping's precise matcher, and a second pass
\* runs only after a first pass that extracted nothing.
C8_PreciseAlwaysFirst ==
    /\ zCalls # <<>> => zCalls[1].matchers = zMapping.shapefile_name_regex
    /\ Len(zCalls) >= 2 => zCalls[1].out = Ok(<<>>)

\* C8: at most two passes are made. The first uses the mapping's own matchers, except for
\* A33, where it uses the Polygon matcher and the mapping's own matchers are never tried. The
\* second uses the catch-all sidecar matcher and runs exactly when the first pass returned Ok
\* with zero files.
C8_MatcherEscalation ==
    /\ Len(zCalls) <= 2
    /\ zCalls # <<>> =>
         zCalls[1].matchers = IF zMapping.identifier = "A33" THEN <<PolygonMatcher>>
                              ELSE zMapping.shapefile_name_regex
    /\ zMapping.identifier = "A33" =>
         \A i \in 1..Len(zCalls) : zCalls[i].matchers # zMapping.shapefile_name_regex
    /\ Len(zCalls) = 2 =>
         /\ zCalls[2].matchers = <<CatchAllMatcher>>
         /\ zCalls[1].out = Ok(<<>>)
    /\ (zpc = "done" /\ zCalls # <<>> /\ zCalls[1].out = Ok(<<>>)) => Len(zCalls) = 2

\* for A33 the Polygon pass found nothing and the catch-all pass returned a Shapefile
C8_Witness ==
    /\ zMapping.identifier = "A33"
    /\ Len(zCalls) = 2
    /\ zCalls[1].matchers = <<PolygonMatcher>>
    /\ zCalls[1].out = Ok(<<>>)
    /\ zResult.status = "Ok"
    /\ zResult.paths # <<>>

\* C9 as stated: no entry whose (normalized) name starts with "N08-21_GML/utf8/" is ever
\* copied to the scratch directory, be it a plain file or a nested ZIP.
C9_DenyListNeverCopied == \A n \in copied : ~StartsWithDeny(n)

\* every path an extraction of `entries` into `outdir` has to return: the entries, at every
\* depth, that are not deny-listed and whose normalized name matches one of the matchers
RECURSIVE MatchingEntries(_, _, _)
MatchingEntries(entries, outdir, matchers) ==
    UNION { LET n == Normalize(entries[k].name)
            IN  IF n.ext = "zip"
                THEN MatchingEntries(entries[k].content, Append(outdir, n.base), matchers)
                ELSE IF (\E r \in Range(matchers) : IsMatch(r, n)) /\ ~StartsWithDeny(n)
                THEN {Join(outdir, n)}
                ELSE {}
          : k \in 1..Len(entries) }

\* C10: every call terminates, and the result of every top-level extract_zip call that
\* returned Ok is exactly the set of non-deny-listed entries, at every nesting depth, whose
\* normalized name matches at least one of the matchers it was given.
C10_ExtractTerminatesComplete ==
    /\ <>(zpc = "done")
    /\ [](\A i \in 1..Len(zCalls) :
            zCalls[i].out.status = "Ok" =>
                Range(zCalls[i].out.paths) =
                    MatchingEntries(zArchive, Append(ShpTmp, TopZip), zCalls[i].matchers))

\* an archive nested three deep was extracted, and the result holds a file of the innermost one
C10_Witness ==
    /\ zpc = "done"
    /\ zResult.status = "Ok"
    /\ \E p \in Range(zCalls[Len(zCalls)].out.paths) : Len(p.dir) = 4

\* ------------------------------------------------------------------------
\* create_vrt: the field table
\* ------------------------------------------------------------------------
\* the declared entries whose source attribute is in the attribute list, in declared order
RECURSIVE Kept(_, _)
Kept(declared, attributes) ==
    IF declared = <<>> THEN <<>>
    ELSE (IF Head(declared)[2] \in attributes THEN <<Head(declared)>> ELSE <<>>)
            \o Kept(Tail(declared), attributes)

\* C11: whenever load() calls create_vrt, for every attribute list the first Shapefile can
\* have: a descriptor that is written carries exactly the declared field_mappings whose
\* source attribute is in that list, in declared order; absent entries alone cause no error
\* (with a Shapefile, a readable attribute list and working I/O the call succeeds as long as
\* one entry remains); and the call fails when no entry remains.
C11_FieldTablePruned ==
    lpc = "vrt" =>
        \A attrsOk \in BOOLEAN, attributes \in SUBSET Attrs, ioOk \in BOOLEAN :
            LET r == CreateVrt(shapefiles, field_mappings, attrsOk, attributes, ioOk)
                kept == Kept(field_mappings, attributes)
            IN  /\ r.ok => (r.fields = kept /\ r.shapes = shapefiles)
                /\ kept = <<>> => ~r.ok
                /\ (shapefiles # <<>> /\ attrsOk /\ ioOk /\ kept # <<>>) => r.ok

\* a descriptor was written with two of the three declared entries, the absent one dropped
C11_Witness ==
    \E k \in Events("vrt") :
        /\ Len(field_mappings) = 3
        /\ trace[k].vrt.fields = << <<"y", "b">>, <<"z", "a">> >>

\* ------------------------------------------------------------------------
\* detect_encoding
\* ------------------------------------------------------------------------
Declared == shape.source_encoding.present /\ shape.source_encoding.value # ""

\* C12: when both ogrinfo runs work, detect_encoding returns the declared source encoding if
\* it is present and non-empty; otherwise CP932 if the dump decodes as CP932, otherwise
\* UTF-8 if it decodes as UTF-8, otherwise an error. Whatever happens, an encoding it
\* returns is the declared one or a candidate under which the dump decodes without error.
C12_DetectEncoding ==
    encPc = "done" =>
        /\ (shape.jsonOk /\ Declared) => encoding = EncOk(shape.source_encoding.value)
        /\ (shape.jsonOk /\ ~Declared /\ shape.dumpOk /\ shape.opened) =>
             encoding = IF ~SjisHadErrors(shape.data) THEN EncOk("CP932")
                        ELSE IF ~Utf8HadErrors(shape.data) THEN EncOk("UTF-8")
                        ELSE EncErr
        /\ encoding.status = "Ok" =>
             \/ Declared /\ encoding.name = shape.source_encoding.value
             \/ /\ ~Declared /\ shape.dumpOk /\ shape.opened
                /\ \/ encoding.name = "CP932" /\ ~SjisHadErrors(shape.data)
                   \/ encoding.name = "UTF-8" /\ ~Utf8HadErrors(shape.data)
        /\ encoding.status \in {"Ok", "Err"}

\* a blank declared encoding and a dump that is valid in both candidates: CP932 was returned
C12_Witness ==
    /\ encPc = "done"
    /\ shape.source_encoding = [present |-> TRUE, value |-> ""]
    /\ shape.data # <<>>
    /\ ~SjisHadErrors(shape.data) /\ ~Utf8HadErrors(shape.data)
    /\ encoding = EncOk("CP932")

\* ------------------------------------------------------------------------
\* Loader::load_all: what makes it fail
\* ------------------------------------------------------------------------
\* C13 as stated: load_all returns an error only if LoadQueue::new failed.
C13_OnlyConstructionFails == loadAllResult = "Err" => newRes = "Err"

\* C13: load_all returns an error only if LoadQueue::new failed or, with a database
\* destination, if load_admini_boundary failed after close() had returned Ok; with the pool
\* constructed, it returns Ok for a file destination whatever load() returned for the
\* datasets, and for a database destination exactly when load_admini_boundary returned Ok.
C13_LoadAllErrorSources ==
    /\ loadAllResult = "Err" =>
         \/ newRes = "Err"
         \/ /\ newRes = "Ok" /\ output = "Postgres" /\ adminiRes = "Err"
            /\ CloseReturnedOk
    /\ (newRes = "Ok" /\ callerPc = "done") =>
         loadAllResult = (IF output = "File" THEN "Ok" ELSE adminiRes)
    /\ adminiRes # "none" => (output = "Postgres" /\ CloseReturnedOk)

\* the pool was constructed, every dataset was loaded, and load_all still returned an error
\* because load_admini_boundary failed
C13_Witness ==
    /\ newRes = "Ok"
    /\ pushIdx = 2
    /\ \A t \in 1..2 : loads[t].results = <<"Ok">>
    /\ adminiRes = "Err"
    /\ loadAllResult = "Err"

\* ------------------------------------------------------------------------
\* load(): metadata upserts
\* ------------------------------------------------------------------------
\* the mappings of this call that have completed
Completed == IF lResult = "Ok" THEN mappings ELSE IF lm = 0 THEN 0 ELSE lm - 1

LowercasedIdentifiers == <<"a38a", "n03", "p05">>

\* C14: with a database destination (the metadata sink is configured), the upserts issued by
\* load() are exactly one per completed mapping, in mapping order, each keyed by the
\* lower-cased identifier of its mapping; every upsert follows the successful conversion of its
\* mapping or the existence check that skipped it, and no step of that mapping follows it; in
\* particular the mapping at which load() failed has no upsert. Without a sink no upsert is
\* issued.
C14_OneUpsertPerMapping ==
    /\ lOutput = "Postgres" =>
         /\ Len(upserts) = Completed
         /\ \A m \in 1..Len(upserts) : upserts[m] = LowercasedIdentifiers[m]
         /\ \A m \in 1..mappings :
              Cardinality({ k \in Events("upsert") : trace[k].m = m })
                 = (IF m <= Completed THEN 1 ELSE 0)
         /\ \A k \in Events("upsert") :
              /\ \/ \E j \in 1..(k - 1) :
                      trace[j].ev = "convert" /\ trace[j].m = trace[k].m /\ trace[k].m \in dest
                 \/ \E j \in 1..(k - 1) :
                      /\ skip_if_exists
                      /\ trace[j].ev = "check" /\ trace[j].m = trace[k].m /\ trace[j].ex
              /\ \A j \in (k + 1)..Len(trace) : trace[j].m # trace[k].m
    /\ lOutput = "File" => (upserts = <<>> /\ Events("upsert") = {})

\* the first mapping was skipped as existing, the second was converted, and both were upserted
C14_Witness ==
    /\ lOutput = "Postgres"
    /\ lResult = "Ok"
    /\ upserts = <<"a38a", "n03">>
    /\ Events("convert") # {}
    /\ \A k \in Events("convert") : trace[k].m = 2
    /\ \E j \in Events("check") : trace[j].m = 1 /\ trace[j].ex

\* ------------------------------------------------------------------------
\* parse_mapping_file: partial lists
\* ------------------------------------------------------------------------
\* the number of records the rows from index k on describe, for a record in progress whose
\* category is `head` (0: none set yet)
RECURSIVE RecordsFrom(_, _, _)
RecordsFrom(rows, k, head) ==
    IF k > Len(rows) THEN 1
    ELSE IF rows[k].head # 0 /\ head # 0 /\ head # rows[k].head
    THEN 1 + RecordsFrom(rows, k + 1, rows[k].head)
    ELSE RecordsFrom(rows, k + 1, IF rows[k].head # 0 THEN rows[k].head ELSE head)

NumRecords(rows) == IF rows = <<>> THEN 0 ELSE RecordsFrom(rows, 1, 0)

\* C15 as stated: a mapping list that is returned holds every record of the catalog, the last
\* one included; a record that cannot be built never leaves a shorter list behind.
C15_NoPartialList ==
    (parsePc = "done" /\ parseResult.status = "Ok") =>
        Len(parseResult.out) = NumRecords(sheet)

\* ------------------------------------------------------------------------
\* matching_shapefiles_in_zip: the returned list
\* ------------------------------------------------------------------------
\* C16 as stated: the list matching_shapefiles_in_zip returns holds every file its last
\* extraction pass extracted as a .shp entry of the case-insensitive matcher, and no sidecar.
C16_ReturnsEveryShp ==
    (zpc = "done" /\ zResult.status = "Ok") =>
        LET extracted == Range(zCalls[Len(zCalls)].out.paths)
        IN  /\ \A p \in extracted : Lower(p.ext) = "shp" => p \in Range(zResult.paths)
            /\ \A p \in Range(zResult.paths) : p \in extracted /\ Lower(p.ext) = "shp"

\* ------------------------------------------------------------------------
\* extract_zip: repeated extraction, sibling archives
\* ------------------------------------------------------------------------
\* C17: when the same archive is extracted again with the same matchers into the same scratch
\* root and both runs return Ok, the second run makes the same extract_zip calls, each returns
\* the same set of paths as in the first run, and every file in the scratch directory has the
\* contents it had after the first run.
C17_ExtractIdempotent ==
    (zRuns # <<>> /\ zpc = "done" /\ zRuns[1].result.status = "Ok" /\ zResult.status = "Ok") =>
        /\ Len(zCalls) = Len(zRuns[1].calls)
        /\ \A i \in 1..Len(zCalls) :
             /\ zCalls[i].matchers = zRuns[1].calls[i].matchers
             /\ Range(zCalls[i].out.paths) = Range(zRuns[1].calls[i].out.paths)
        /\ zResult = zRuns[1].result
        /\ \A f \in zRuns[1].scratch : f \in scratch
        /\ \A f \in scratch : f \in zRuns[1].scratch

\* two runs returned Ok with a Shapefile out of a nested archive, and the scratch directory
\* holds the nested archive and its file
C17_Witness ==
    /\ Len(zRuns) = 1 /\ zpc = "done"
    /\ zRuns[1].result.status = "Ok" /\ zResult.status = "Ok"
    /\ \E p \in Range(zResult.paths) : Len(p.dir) = 3
    /\ Cardinality(scratch) >= 3

\* C18 as stated: the entries extracted from sibling archives all go to different scratch
\* paths: no path is written by two of the entries an extract_zip call extracts. (In the
\* archives of SpecRerun the names inside one archive are distinct, so two entries with the
\* same path come from two sibling archives.)
C18_SiblingsNeverCollide ==
    \A i \in 1..Len(zOut), j \in 1..Len(zOut) : i # j => zOut[i] # zOut[j]


\* ------------------------------------------------------------------------
\* C19, C20: the matcher derived from a naming template
\* ------------------------------------------------------------------------
\* what a template's pieces stand for in a file name: a literal character for itself, "#"
\* for one digit of a token, a remark for nothing but the space in front of it
RECURSIVE Shape(_)
Shape(parts) ==
    IF parts = <<>> THEN <<>>
    ELSE (CASE Head(parts).kind = "lit" -> Head(parts).text
            [] Head(parts).kind = "tok" -> Rep("#", Len(Head(parts).text))
            [] OTHER -> <<" ">>)
         \o Shape(Tail(parts))

\* the string `seg` is an expansion of the template's pieces
IsExpansion(parts, seg) ==
    LET sh == Trim(Shape(parts))
    IN  /\ Len(seg) = Len(sh)
        /\ \A i \in 1..Len(sh) :
             IF sh[i] = "#" THEN seg[i] \in Digits ELSE seg[i] = sh[i]

\* the template is written with literal text and tokens only
Plain(parts) == \A i \in 1..Len(parts) : parts[i].kind # "note"

\* the token strings found when the template is read from left to right are the tokens it was
\* written with: its literal text completes no token string
ReadAsWritten(parts) ==
    \A i \in 1..Len(parts) :
        parts[i].kind = "lit" =>
            ~\E k \in 1..Len(TokenPattern) :
                TokenAt(Flatten(parts), 1 + Len(Flatten(SubSeq(parts, 1, i - 1))), TokenPattern[k])

\* C19: a derived matcher matches a path only if an expansion of the template followed by a
\* sidecar extension is the whole last segment of the path: the segment starts at the
\* beginning of the path or right after a "/", contains no "/", and ends the path.
C19_MatchIsWholeSegment ==
    (rePc = "done" /\ matched) =>
        LET name == candidate.name
        IN  \E k \in 1..Len(name) :
              /\ k = 1 \/ name[k - 1] = "/"
              /\ \A j \in k..Len(name) : name[j] # "/"
              /\ Lower(name[Len(name)]) \in {"shp", "cpg", "dbf", "prj", "qmd", "shx"}
              /\ Len(name) - k = Len(Trim(Shape(template.parts)))
              /\ ReadAsWritten(template.parts)
                    => IsExpansion(template.parts, SubSeq(name, k, Len(name) - 1))

\* a template with a token and a remark was matched against a path inside a directory
C19_Witness ==
    /\ rePc = "done"
    /\ matched
    /\ candidate.prefix = <<"d", "/">>
    /\ \E i \in 1..Len(template.parts) : template.parts[i].kind = "tok"
    /\ \E i \in 1..Len(template.parts) : template.parts[i].kind = "note"

\* the file name is the template's expansion with a sidecar extension, nothing around it
OwnFileName ==
    /\ rePc = "done"
    /\ Plain(template.parts)
    /\ candidate.prefix = <<>>
    /\ candidate.tail = <<>>
    /\ Lower(candidate.ext) \in {"shp", "cpg", "dbf", "prj", "qmd", "shx"}

\* C20 as stated: for every template put together from literal text and tokens, the file name
\* with the right number of digits for every token is accepted, and rejected with one digit
\* more or fewer at one token.
C20_AnyLiteralText ==
    OwnFileName =>
        /\ candidate.by = 0 => matched
        /\ candidate.by # 0 => ~matched

\* C20: the same, for the templates whose literal text completes no token string (literal
\* "A" in front of the token AA is read as the token AA followed by literal "A").
C20_DigitsOfTokenWidth ==
    (OwnFileName /\ ReadAsWritten(template.parts)) =>
        /\ candidate.by = 0 => matched
        /\ candidate.by # 0 => ~matched

\* two adjacent tokens, the second one digit short: rejected
C20_Witness ==
    /\ OwnFileName
    /\ ReadAsWritten(template.parts)
    /\ Len(template.parts) = 2
    /\ template.parts[1].kind = "tok"
    /\ template.parts[2].kind = "tok"
    /\ candidate.at = 2
    /\ candidate.by = -1
    /\ ~matched


\* ------------------------------------------------------------------------
\* C24, C26, C27: the worker pool and the progress task
\* ------------------------------------------------------------------------
\* C24: once LoadQueue::new has returned Ok there are exactly max(cpus - 1, 1) dataset workers
\* (at least one) and one progress task, every dataset a worker holds came from the one work
\* queue (it was pushed, and is held by no other worker), and the set of workers never changes.
C24_FixedPool ==
    /\ [](newRes = "Ok" =>
            /\ Cardinality(workers) = (IF cpus = 1 THEN 1 ELSE cpus - 1)
            /\ Cardinality(workers) >= 1
            /\ progressSpawned
            /\ \A w \in WorkerIds : (wpc[w] # "unspawned") <=> (w \in workers)
            /\ \A w \in workers : witem[w] # 0 =>
                   /\ witem[w] \in 1..pushIdx
                   /\ \A v \in workers : (v # w) => witem[v] # witem[w])
    /\ [][newRes = "Ok" => workers' = workers]_vars

\* a single CPU, one worker, which has loaded both datasets; the run is over
C24_Witness ==
    /\ newRes = "Ok"
    /\ cpus = 1
    /\ workers = {1}
    /\ nDatasets = 2
    /\ Len(loads[2].by) = 1
    /\ callerPc = "done"

\* C26: once close() has passed its guards and waits in join_all, it eventually returns Ok,
\* with every worker out of its receive loop and the progress task out of its loop.
C26_CloseReturns ==
    (callerPc = "joining") ~>
        (/\ CloseReturnedOk
         /\ \A w \in workers : wpc[w] = "done"
         /\ ppc = "done")

\* close() returned after two workers had taken a dataset each
C26_Witness ==
    /\ CloseReturnedOk
    /\ cpus = 3
    /\ nDatasets = 2
    /\ loads[1].by # <<>>
    /\ loads[2].by # <<>>
    /\ loads[1].by # loads[2].by

\* the push() calls that returned Ok
PushedOk == Cardinality({ k \in 1..Len(callLog) : callLog[k] = CallRec("push", "Ok") })

\* C27: the completed count never exceeds the total count; when the progress task has ended
\* both equal the number of datasets pushed successfully, and every pushed dataset, failed or
\* not, was reported as finished exactly once.
C27_PositionAtMostLength ==
    /\ position <= length
    /\ ppc = "done" =>
          /\ length = PushedOk
          /\ position = PushedOk
          /\ \A t \in Tickets : finishedSent[t] = (IF t <= PushedOk THEN 1 ELSE 0)
          /\ \A t \in errLog : finishedSent[t] = 1

\* the progress task ended after a run in which one load() failed and one succeeded
C27_Witness ==
    /\ ppc = "done"
    /\ position = 2
    /\ length = 2
    /\ errLog # {}
    /\ \E t \in Tickets : "Ok" \in Range(loads[t].results)


\* ------------------------------------------------------------------------
\* C28, C29: failing steps of load(), and the existence query
\* ------------------------------------------------------------------------
\* the positions of the trace at which step `ev` was performed for mapping m
StepsOf(ev, m) == { k \in 1..Len(trace) : trace[k].ev = ev /\ trace[k].m = m }

\* C28: the first failing step ends load(): once load() has returned Err nothing more is done
\* (no extraction, check, descriptor, conversion or metadata, for this or a later mapping),
\* no step was ever performed for a mapping after the failing one, metadata exists exactly for
\* the mappings completed before the failure, and their outputs are still at the destination.
\* A mapping gets metadata after a conversion only if that conversion succeeded.
C28_FirstFailureEndsLoad ==
    /\ [](lResult = "Err" =>
            /\ lpc = "done"
            /\ \A k \in 1..Len(trace) : trace[k].m <= lm
            /\ metaStore = { m \in 1..MaxMappings : m < lm }
            /\ Len(upserts) = (IF MetadataConn THEN Cardinality(metaStore) ELSE 0)
            /\ dest0 \subseteq dest
            /\ StepsOf("extract", lm) # {} => Cardinality(StepsOf("extract", lm)) <= nZips)
    /\ [](\A m \in metaStore : StepsOf("convert", m) # {} => m \in dest)
    /\ [][lResult = "Err" => UNCHANGED lvars]_vars

\* the first mapping was converted and given metadata; the second archive of the second
\* mapping failed to extract
C28_Witness ==
    /\ lResult = "Err"
    /\ mappings = 2
    /\ lm = 2
    /\ nZips = 2
    /\ lz = 1
    /\ metaStore = {1}
    /\ 1 \in dest
    /\ 1 \notin dest0


\* C29 as stated: has_layer never returns an error, whatever makes the query fail.
C29_QueryNeverErr ==
    \A k \in 1..Len(queries) : queries[k].res # "Err"

\* C29: has_layer returns true only when its query succeeded (the table is there and the
\* database was reached); when the query ran and failed it returns false, and load() then
\* goes on to the descriptor and the overwriting conversion: on a database destination with
\* skip-if-exists a mapping gets metadata without a conversion only after has_layer returned
\* true for it.  has_layer returns an error only when the query tool could not be run, and
\* that error ends load().
C29_FalseMeansConvert ==
    /\ [](\A k \in 1..Len(queries) :
            LET q == queries[k]
            IN  /\ q.res = "true" => (q.exists /\ q.reachable)
                /\ (q.res # "Err" /\ ~(q.exists /\ q.reachable)) => q.res = "false"
                /\ q.res = "false" =>
                      (q.m \in metaStore => StepsOf("convert", q.m) # {})
                /\ q.res = "Err" => (lResult = "Err" /\ k = Len(queries) /\ q.m \notin metaStore))
    /\ []((lOutput = "Postgres" /\ skip_if_exists) =>
            \A m \in metaStore :
                StepsOf("convert", m) = {} =>
                    \E k \in 1..Len(queries) : queries[k].m = m /\ queries[k].res = "true")
    /\ [][(lpc = "check" /\ lOutput = "Postgres" /\ skip_if_exists /\ lResult' = "none"
             /\ ~already_exists') => lpc' = "vrt"]_vars
    /\ [][(lpc = "vrt" /\ ~already_exists /\ lResult' = "none") => lpc' = "convert"]_vars

\* the table was there but the database could not be reached: has_layer returned false and
\* the mapping was converted over the existing table
C29_Witness ==
    \E k \in 1..Len(queries) :
        /\ queries[k].exists
        /\ ~queries[k].reachable
        /\ queries[k].res = "false"
        /\ StepsOf("convert", queries[k].m) # {}
        /\ queries[k].m \in metaStore


\* ------------------------------------------------------------------------
\* C22: annotations in a naming template
\* ------------------------------------------------------------------------
\* C22: the matcher is derived from the template text as the catalog gives it: an annotation
\* in full-width parentheses is still in the text the tokens are substituted in, so the
\* pattern of a template with an annotation has the parentheses among its literal elements.
C22_AnnotationKept ==
    (rePc # "derive" /\ \E i \in 1..Len(template.parts) : template.parts[i].kind = "note") =>
        /\ \E j \in 1..Len(regex) : regex[j] = LitItem("(")
        /\ \E j \in 1..Len(regex) : regex[j] = LitItem(")")


C23_NeverReturnsPartial ==
    /\ [][meta_path' # meta_path => (dPc = "meta" /\ Complete(file_path))]_vars
    /\ [](\A k \in 1..Len(dReturned) : Complete(dReturned[k]))

\* the part of C23 that holds: the metadata file changes only in the last step of a call, when
\* the target file is complete
C23_MetaAfterBody ==
    [][meta_path' # meta_path => (dPc = "meta" /\ Complete(file_path) /\ Complete(file_path'))]_vars


\* ------------------------------------------------------------------------
\* C25: the grid of parse_table
\* ------------------------------------------------------------------------
\* the columns of row r (from 0) of the returned array that hold `cell`
ColumnsOf(r, cell) == { j \in 1..array.ncols : array.rows[r + 1][j] = cell }

\* C25: the array is rectangular; a cell with colspan c and rowspan r holds the c columns
\* from its first column on in its own row and in each of the following r-1 rows of the
\* table; and no cell of a row has an empty position to its left, in its row, in the array.
C25_SpansOccupied ==
    tPc = "done" =>
        /\ array.nrows = Len(table)
        /\ \A i \in 1..array.nrows : Len(array.rows[i]) = array.ncols
        /\ \A r \in 0..(Len(table) - 1) : \A k \in 1..Len(table[r + 1]) :
             LET cell == CellRef(r, k)
                 cols == ColumnsOf(r, cell)
                 first == CHOOSE j \in cols : \A h \in cols : j <= h
             IN  /\ cols # {}
                 /\ \A dr \in 0..(table[r + 1][k].rowspan - 1) :
                      \A dc \in 0..(table[r + 1][k].colspan - 1) :
                        (r + dr < array.nrows) =>
                            /\ first + dc <= array.ncols
                            /\ array.rows[r + dr + 1][first + dc] = cell
                 /\ \A j \in 1..(first - 1) : array.rows[r + 1][j] # 0

\* ------------------------------------------------------------------------
\* C30: a failed download is not isolated. The worker whose download returned Err has
\* panicked: it stays so and takes no further item; the failed item is never sent as
\* finished to the progress task; close does not return Ok in a run with a failed download;
\* and every item is received by a worker that has not panicked.
\* ------------------------------------------------------------------------
DqFailedWorkers == {w \in DqWorkers : dqWpc[w] = "panicked"}

C30_FailureNotIsolated ==
    /\ [](/\ \A w \in DqWorkers :
                (dqWpc[w] = "downloading" \/ dqWpc[w] = "sending")
                    => dqItem[w].id \notin dqFailed
          /\ \A i \in dqFailed : \E w \in DqWorkers :
                dqItem[w].id = i /\ dqWpc[w] = "panicked"
          /\ dqFailed \intersect dqReported = {}
          /\ (dqFailed # {} => dqCaller # "Ok"))
    /\ [][/\ \A w \in DqFailedWorkers : dqWpc'[w] = "panicked" /\ dqItem'[w] = dqItem[w]
          /\ (Len(dqTaken') > Len(dqTaken)
                => dqTaken'[Len(dqTaken')][1] \notin DqFailedWorkers)]_vars

\* a download has failed while an item was still queued, that item was then received by
\* the other worker, and close has ended in the panic of join_all
C30_Witness ==
    /\ dqCaller = "panicked"
    /\ dqFailed # {}
    /\ \E k \in 1..Len(dqTaken) : \E j \in 1..Len(dqTaken) :
          /\ k < j
          /\ dqTaken[k][2] \in dqFailed
          /\ dqTaken[j][2] \notin dqFailed
          /\ dqTaken[j][2] \in dqReported
          /\ dqWpc[dqTaken[k][1]] = "panicked"

====
